---------------------------- MODULE Spec2Model ----------------------------
(***************************************************************************)
(* State-machine model of the example programs of openrouter-examples:     *)
(*   - the PDF batch runners (fetch, AI SDK, Effect AI),                   *)
(*   - the Effect parallel example runner (run-examples.ts),               *)
(*   - the cache-probe, control and reasoning examples,                    *)
(*   - the helper functions of the shared fixtures module.                 *)
(* One run of one program is one behaviour: Init picks the program and its *)
(* environment (API key, fixture files), the actions are the program's     *)
(* steps between suspension points (every await / yield* of an async       *)
(* effect), and the remote API and child processes answer                  *)
(* nondeterministically.                                                   *)
(***************************************************************************)
EXTENDS Integers, Sequences, FiniteSets, TLC

VARIABLES
    program,          \* which example program this run executes
    apiKeySet,        \* process.env.OPENROUTER_API_KEY is set
    missingFiles,     \* fixture files absent from disk: set of <<size, kind>>
    pc,               \* position of the main program
    idx,              \* sequential runners: index into PDF_SIZES of the current case
    expectedCode,     \* sequential runners: expectedCode of the current case
    fiber,            \* concurrent runners: position of each forked fiber
    fiberReturn,      \* concurrent runners: the value each finished fiber returned
    slots,            \* concurrent runners: result array Effect.all fills
    completionOrder,  \* concurrent runners: indices in the order the fibers finished
    results,          \* the results collection of the program
    errorLog,         \* per-case errors printed by the catch handlers
    inflight,         \* remote requests / child processes currently running
    netRequests,      \* number of HTTP requests sent so far
    responded,        \* how each remote call / child process has settled
    successfulResults,\* example runner: examples reported as successful
    failedResults,    \* example runner: examples reported as failed
    failed,           \* sequential example runner: the failed counter
    lateEvents,       \* example runner: child events after the task resumed
    isLoading,        \* Raycast useOpenRouter: the isLoading state
    conversation,     \* Raycast useConversation: the conversation state
    calls,            \* Raycast hooks: the ask / addChat calls made so far
    clears,           \* Raycast useConversation: clearConversation calls so far
    usage,            \* probes: usage accounting of the responses received
    cached,           \* probes: cached1, cached2 as the program computed them
    flags,            \* probes: diagnostic lines of the analysis section
    verdict,          \* probes: the success flag of the analysis, once computed
    summary,          \* the "Results: passed/total" line, once printed
    exitCode,         \* process exit status, or None while running
    input,            \* helper functions: the argument of the call
    output,           \* helper functions: the value the call returned
    now,              \* probes: the clock Date.now() reads, in seconds
    testId,           \* probes: the Date.now() value taken when the run starts
    sent,             \* probes: the requests sent, each with its sending time
    report            \* probes: the cached-token count of each per-call line

envVars == <<program, apiKeySet, missingFiles>>
seqVars == <<idx, expectedCode>>
concVars == <<fiber, fiberReturn, slots, completionOrder>>
runnerVars == <<successfulResults, failedResults, failed, lateEvents>>
probeVars == <<usage, cached, flags, verdict>>
fnVars == <<input, output>>
callVars == <<now, testId, sent, report>>
uiVars == <<isLoading, conversation, calls, clears>>

vars == <<envVars, uiVars, seqVars, concVars, runnerVars, probeVars, fnVars, callVars,
          pc, results,
          errorLog, inflight, netRequests, responded, summary, exitCode>>

\* "no value yet" of a variable that later holds a number
None == "none"

\* JavaScript null where a text is expected; texts are sequences of
\* one-character strings, so no text equals it
Null == <<"null">>

(***************************************************************************)
(* Bounds of the model                                                     *)
(***************************************************************************)
\* at most this many fixture files are absent from disk in one run
MaxMissing == 2

\* number of example files findExamples discovers
NumExamples == 3

\* largest token count a response reports
MaxTokens == 2

\* latest clock reading, in seconds, at which a probe run starts
MaxStart == 2

\* byte counts are taken up to this far from each point of interest
Window == 3

\* ask / addChat calls made on one hook instance
MaxCalls == 3

\* clearConversation calls made on one hook instance
MaxClears == 1

(***************************************************************************)
(* Fixtures (typescript/shared/src/fixtures.ts, fixtures/pdfs)             *)
(***************************************************************************)
PDF_SIZES == <<"small", "medium", "large", "xlarge">>

SizeIndex == 1..Len(PDF_SIZES)

\* Texts are sequences of one-character strings.
Upper == {"A","B","C","D","E","F","G","H","I","J","K","L","M",
          "N","O","P","Q","R","S","T","U","V","W","X","Y","Z"}

Digit == {"0","1","2","3","4","5","6","7","8","9"}

\* the code the generator writes to <size>.json and draws into <size>.pdf
VerificationCode(size) ==
    CASE size = "small"  -> <<"S","M","A","L","L","-","7","X","9","Q","2">>
      [] size = "medium" -> <<"M","E","D","I","U","M","-","K","4","P","8","R">>
      [] size = "large"  -> <<"L","A","R","G","E","-","M","9","N","3","T">>
      [] size = "xlarge" -> <<"X","L","A","R","G","E","-","W","6","H","5","V">>

FixtureFiles == {<<PDF_SIZES[i], kind>> : i \in SizeIndex, kind \in {"json", "pdf"}}

\* Bun.file(path).json() / .arrayBuffer() resolve iff the file is on disk
FileExists(size, kind) == <<size, kind>> \notin missingFiles

\* a JavaScript string value
JsString(t) == [type |-> "string", text |-> t]

\* the JavaScript value undefined
Undefined == [type |-> "undefined", text |-> <<>>]

\* a path with no file behind it
AbsentFile == [exists |-> FALSE, json |-> "none", fields |-> {}]

\* <size>.json as the generator writes it: a JSON object whose members are
\* <<name, value>> pairs (description, size and purpose are left out)
GeneratedMetadata(size) ==
    [exists |-> TRUE, json |-> "object",
     fields |-> {<<"verificationCode", JsString(VerificationCode(size))>>,
                 <<"type", JsString(<<"t","e","s","t","_","f","i","x","t","u","r","e">>)>>}]

\* the metadata file of a size class as it is on disk in this run
MetadataOnDisk(size) ==
    IF FileExists(size, "json") THEN GeneratedMetadata(size) ELSE AbsentFile

\* readExpectedCode: (await Bun.file(path).json()).verificationCode.  The
\* promise rejects when the file is absent (ENOENT), is not JSON
\* (SyntaxError) or holds null (TypeError); the cast to PdfMetadata checks
\* nothing, a member that is not there reads as undefined
readExpectedCode(file) ==
    IF ~file.exists
    THEN [threw |-> TRUE, error |-> "ENOENT", value |-> Undefined]
    ELSE IF file.json = "invalid"
    THEN [threw |-> TRUE, error |-> "SyntaxError", value |-> Undefined]
    ELSE IF file.json = "null"
    THEN [threw |-> TRUE, error |-> "TypeError", value |-> Undefined]
    ELSE [threw |-> FALSE, error |-> None,
          value |-> IF \E m \in file.fields : m[1] = "verificationCode"
                    THEN (CHOOSE m \in file.fields : m[1] = "verificationCode")[2]
                    ELSE Undefined]

(***************************************************************************)
(* formatSize: KB without decimals below 1 MiB, MB with one decimal from   *)
(* 1 MiB on                                                                *)
(***************************************************************************)
KiB == 1024

MiB == 1024 * 1024

\* the decimal digits of a natural number, as Number.prototype.toString
\* writes them
RECURSIVE Decimal(_)
Decimal(n) ==
    IF n < 10 THEN <<<<"0","1","2","3","4","5","6","7","8","9">>[n + 1]>>
    ELSE Decimal(n \div 10) \o Decimal(n % 10)

\* (num / den).toFixed(0) for a quotient that is exact in binary floating
\* point: the nearest integer, the larger one on a tie
ToFixed0(num, den) == Decimal((2 * num + den) \div (2 * den))

\* (num / den).toFixed(1): the nearest tenth, the larger one on a tie
ToFixed1(num, den) ==
    LET n == (20 * num + den) \div (2 * den)
    IN  Decimal(n \div 10) \o <<".">> \o Decimal(n % 10)

\* the size test written with <= instead of <
formatSizeInclusive(bytes) ==
    IF bytes <= 1024 * 1024
    THEN ToFixed0(bytes, KiB) \o <<" ","K","B">>
    ELSE ToFixed1(bytes, MiB) \o <<" ","M","B">>

formatSize(bytes) ==
    IF bytes < 1024 * 1024
    THEN ToFixed0(bytes, KiB) \o <<" ","K","B">>
    ELSE ToFixed1(bytes, MiB) \o <<" ","M","B">>

(***************************************************************************)
(* extractCode: text.match(/[A-Z]+-[A-Z0-9]{5}/), first match or null      *)
(***************************************************************************)
\* first position at or after i that does not hold an uppercase letter
RECURSIVE RunEnd(_, _)
RunEnd(text, i) ==
    IF i > Len(text) \/ text[i] \notin Upper THEN i ELSE RunEnd(text, i + 1)

\* the regular expression matches starting at position i
MatchAt(text, i) ==
    /\ text[i] \in Upper
    /\ LET j == RunEnd(text, i)
       IN  /\ j + 5 <= Len(text)
           /\ text[j] = "-"
           /\ \A k \in 1..5 : text[j + k] \in Upper \cup Digit

\* the pattern without the "+": one uppercase letter before the hyphen
extractCodeOneLetter(text) ==
    IF \E i \in 1..Len(text) : MatchAt(text, i)
    THEN LET i == CHOOSE p \in 1..Len(text) :
                     /\ MatchAt(text, p)
                     /\ \A q \in 1..(p - 1) : ~MatchAt(text, q)
         IN  SubSeq(text, RunEnd(text, i) - 1, RunEnd(text, i) + 5)
    ELSE Null

\* the last match instead of the first
extractCodeLast(text) ==
    IF \E i \in 1..Len(text) : MatchAt(text, i)
    THEN LET i == CHOOSE p \in 1..Len(text) :
                     /\ MatchAt(text, p)
                     /\ \A q \in (p + 1)..Len(text) :
                           MatchAt(text, q) => RunEnd(text, q) = RunEnd(text, p)
                     /\ \A q \in 1..(p - 1) :
                           MatchAt(text, q) => RunEnd(text, q) # RunEnd(text, p)
         IN  SubSeq(text, i, RunEnd(text, i) + 5)
    ELSE Null

extractCode(text) ==
    IF \E i \in 1..Len(text) : MatchAt(text, i)
    THEN LET i == CHOOSE p \in 1..Len(text) :
                     /\ MatchAt(text, p)
                     /\ \A q \in 1..(p - 1) : ~MatchAt(text, q)
         IN  SubSeq(text, i, RunEnd(text, i) + 5)
    ELSE Null

\* a comparison in which a missing code falls back to the expected one
CheckResponseLoose(text, expected) ==
    [extracted |-> extractCode(text),
     success |-> extractCode(text) \in {Null, expected}]

\* const extracted = extractCode(text); const success = extracted === expectedCode
CheckResponse(text, expected) ==
    [extracted |-> extractCode(text), success |-> extractCode(text) = expected]


(***************************************************************************)
(* The programs                                                            *)
(***************************************************************************)
\* the AI SDK runner that takes its expected codes from the table
\* EXPECTED_CODES instead of the metadata files
HardCodedPrograms == {"aisdk_pdf_hardcoded"}

\* const EXPECTED_CODES of that runner
EXPECTED_CODES(size) ==
    CASE size = "small"  -> <<"S","M","A","L","L","-","7","X","9","Q","2">>
      [] size = "medium" -> <<"M","E","D","I","U","M","-","K","4","P","8","R">>
      [] size = "large"  -> <<"L","A","R","G","E","-","M","9","N","3","T">>
      [] size = "xlarge" -> <<"X","L","A","R","G","E","-","F","6","H","2","V">>

\* fetch/src/plugin-file-parser/file-parser-all-sizes.ts and its AI SDK twins
SeqPdfPrograms == {"fetch_pdf", "aisdk_pdf"} \cup HardCodedPrograms

\* effect-ai/src/plugin-file-parser/file-parser-all-sizes.ts
EffectPdfPrograms == {"effect_pdf"}

PdfPrograms == SeqPdfPrograms \cup EffectPdfPrograms

(***************************************************************************)
(* The remote API as the PDF runners see it                                *)
(***************************************************************************)
OtherSize(size) ==
    CASE size = "small"  -> "medium"
      [] size = "medium" -> "large"
      [] size = "large"  -> "xlarge"
      [] size = "xlarge" -> "small"

\* response texts the model may answer with for the PDF of one size class
ResponseTexts(size) ==
    { VerificationCode(size),
      <<"T","h","e"," ","c","o","d","e"," ","i","s"," ">>
          \o VerificationCode(size) \o <<",">>,
      VerificationCode(OtherSize(size)),
      VerificationCode(OtherSize(size)) \o <<" ">> \o VerificationCode(size),
      <<"n","o"," ","c","o","d","e"," ","h","e","r","e">> }

RemoteErrors == {"http_error", "transport_error"}

\* how a settled call is remembered: "ok", or the kind of its error
Status(o) == IF o.ok THEN "ok" ELSE o.error

\* what one remote call can settle with: a 2xx response carrying a text, or
\* an error; without a valid key the server answers 401
RemoteOutcomes(size) ==
    {[ok |-> FALSE, text |-> <<>>, error |-> e] : e \in RemoteErrors} \cup
        (IF apiKeySet
         THEN {[ok |-> TRUE, text |-> t, error |-> None] : t \in ResponseTexts(size)}
         ELSE {})

(***************************************************************************)
(* Result bookkeeping shared by the PDF runners                            *)
(***************************************************************************)
\* a catch block that logs the error but records nothing
RecordFailureDropped(rs) == rs

\* results.push(false) of the per-case catch block
RecordFailure(rs) == Append(rs, FALSE)

\* an assignment in place of the push: results = [success]
RecordResultReplace(rs, success) == <<success>>

\* results.push(result.success)
RecordResult(rs, success) == Append(rs, success)

\* the record logFailure returns for a failed Effect case
FailureRecord == [success |-> FALSE, extracted |-> Null, expected |-> <<>>]

\* success flag of one entry of results
Success(r) == IF program \in EffectPdfPrograms THEN r.success ELSE r

\* results.filter(Boolean).length
RECURSIVE Passed(_)
Passed(rs) ==
    IF rs = <<>> THEN 0
    ELSE (IF Success(Head(rs)) THEN 1 ELSE 0) + Passed(Tail(rs))

\* an exit test that asks for one pass instead of all
ExitStatusAnyPass(passed, total) == IF passed > 0 THEN 0 ELSE 1

\* if (passed === total) process.exit(0) else process.exit(1)
ExitStatus(passed, total) == IF passed = total THEN 0 ELSE 1

(***************************************************************************)
(* Sequential PDF runners: main() of the fetch and AI SDK examples         *)
(***************************************************************************)
SeqUnchanged == UNCHANGED <<envVars, uiVars, concVars, runnerVars, probeVars, fnVars,
                            callVars>>

\* end of one loop iteration: next size class, or leave the loop
AdvanceLoop ==
    /\ idx' = idx + 1
    /\ pc' = IF idx + 1 > Len(PDF_SIZES) THEN "summary" ELSE "meta"
    /\ expectedCode' = Null

\* a catch block that logs the error and tries the same size class again
CaseCatchRetry(kind) ==
    /\ errorLog' = errorLog \cup {[case |-> idx, kind |-> kind]}
    /\ inflight' = {}
    /\ pc' = "meta"
    /\ UNCHANGED <<idx, expectedCode, results>>

\* the per-case catch block: log the error, push false, go on with the loop
CaseCatch(kind) ==
    /\ results' = RecordFailure(results)
    /\ errorLog' = errorLog \cup {[case |-> idx, kind |-> kind]}
    /\ inflight' = {}
    /\ AdvanceLoop

\* await readExpectedCode(size) settles; the hard-coded runner looks the
\* code up in EXPECTED_CODES, which has an entry for every size class
SeqReadExpectedCode ==
    /\ program \in SeqPdfPrograms
    /\ pc = "meta"
    /\ IF program \in HardCodedPrograms
       THEN /\ expectedCode' = EXPECTED_CODES(PDF_SIZES[idx])
            /\ pc' = "pdf"
            /\ UNCHANGED <<idx, results, errorLog, inflight>>
       ELSE IF ~readExpectedCode(MetadataOnDisk(PDF_SIZES[idx])).threw
       THEN /\ expectedCode' =
                   readExpectedCode(MetadataOnDisk(PDF_SIZES[idx])).value.text
            /\ pc' = "pdf"
            /\ UNCHANGED <<idx, results, errorLog, inflight>>
       ELSE CaseCatch("metadata")
    /\ UNCHANGED <<netRequests, responded, summary, exitCode>>
    /\ SeqUnchanged

\* the remote call started without await: the loop goes on to the next size
\* class while the request is still in flight
SeqReadPdfNoAwait ==
    /\ program \in SeqPdfPrograms
    /\ pc = "pdf"
    /\ IF ~FileExists(PDF_SIZES[idx], "pdf")
       THEN CaseCatch("pdf") /\ UNCHANGED netRequests
       ELSE IF ~apiKeySet
       THEN CaseCatch("apikey") /\ UNCHANGED netRequests
       ELSE /\ inflight' = inflight \cup {idx}
            /\ netRequests' = netRequests + 1
            /\ AdvanceLoop
            /\ UNCHANGED <<results, errorLog>>
    /\ UNCHANGED <<responded, summary, exitCode>>
    /\ SeqUnchanged

\* await readPdfAsDataUrl(size) settles; on success the request is built and
\* sent (fetch: after the API-key check; AI SDK: the provider loads the key)
SeqReadPdf ==
    /\ program \in SeqPdfPrograms
    /\ pc = "pdf"
    /\ IF ~FileExists(PDF_SIZES[idx], "pdf")
       THEN CaseCatch("pdf") /\ UNCHANGED netRequests
       ELSE IF ~apiKeySet
       THEN CaseCatch("apikey") /\ UNCHANGED netRequests
       ELSE /\ inflight' = inflight \cup {idx}
            /\ netRequests' = netRequests + 1
            /\ pc' = "call"
            /\ UNCHANGED <<idx, expectedCode, results, errorLog>>
    /\ UNCHANGED <<responded, summary, exitCode>>
    /\ SeqUnchanged

\* await fetch(...) / generateText(...) settles
SeqRemoteSettles ==
    /\ program \in SeqPdfPrograms
    /\ pc = "call"
    /\ \E o \in RemoteOutcomes(PDF_SIZES[idx]) :
         /\ responded' = responded \cup {[case |-> idx, status |-> Status(o),
                                           text |-> o.text]}
         /\ IF o.ok
            THEN /\ results' = RecordResult(results,
                                CheckResponse(o.text, expectedCode).success)
                 /\ inflight' = {}
                 /\ AdvanceLoop
                 /\ UNCHANGED errorLog
            ELSE CaseCatch(o.error)
    /\ UNCHANGED <<netRequests, summary, exitCode>>
    /\ SeqUnchanged

\* after the loop: passed/total summary and process.exit
SeqSummary ==
    /\ program \in SeqPdfPrograms
    /\ pc = "summary"
    /\ summary' = [printed |-> TRUE, passed |-> Passed(results),
                    total |-> Len(results)]
    /\ exitCode' = ExitStatus(Passed(results), Len(results))
    /\ pc' = "exited"
    /\ UNCHANGED <<idx, expectedCode, results, errorLog, inflight, netRequests,
                   responded>>
    /\ SeqUnchanged

(***************************************************************************)
(* Effect AI PDF runner: program of the Effect example.  Effect.all forks  *)
(* one fiber per size class (concurrency: 'unbounded').                    *)
(***************************************************************************)
EffUnchanged == UNCHANGED <<envVars, uiVars, seqVars, runnerVars, probeVars, fnVars,
                            callVars>>

\* value of a slot Effect.all has not filled yet
EmptySlot == [success |-> FALSE, extracted |-> Null, expected |-> Null]

\* results collected in completion order
SlotIndexByArrival(i, order) == Len(order) + 1

\* position of fiber i's value in the array Effect.all returns
SlotIndex(i, order) == i

\* a fiber finishes with value v: Effect.all stores it
FiberDone(i, v) ==
    /\ fiber' = [fiber EXCEPT ![i] = "done"]
    /\ fiberReturn' = [fiberReturn EXCEPT ![i] = v]
    /\ slots' = [slots EXCEPT ![SlotIndex(i, completionOrder)] = v]
    /\ completionOrder' = Append(completionOrder, i)
    /\ inflight' = inflight \ {i}

\* a promise wrapped in Effect.promise rejects: the rejection is a defect,
\* which Effect.catchAll does not catch; Effect.all interrupts the other
\* fibers and the program dies
Defect(i) ==
    /\ fiber' = [j \in DOMAIN fiber |->
                   IF j = i THEN "died"
                   ELSE IF fiber[j] = "done" THEN "done" ELSE "interrupted"]
    /\ inflight' = {}
    /\ pc' = "died"
    /\ errorLog' = errorLog \cup {[case |-> i, kind |-> "defect"]}
    /\ UNCHANGED <<fiberReturn, slots, completionOrder, netRequests>>

\* Effect.promise(() => readExpectedCode(size)) settles in fiber i
FiberReadExpectedCode(i) ==
    /\ program \in EffectPdfPrograms
    /\ pc = "all"
    /\ fiber[i] = "meta"
    /\ IF ~readExpectedCode(MetadataOnDisk(PDF_SIZES[i])).threw
       THEN /\ fiber' = [fiber EXCEPT ![i] = "pdf"]
            /\ UNCHANGED <<pc, fiberReturn, slots, completionOrder, inflight,
                           errorLog, netRequests>>
       ELSE Defect(i)
    /\ UNCHANGED <<results, responded, summary, exitCode>>
    /\ EffUnchanged

\* Effect.promise(() => readPdfAsDataUrl(size)) settles in fiber i; on
\* success the prompt is built and generateText sends the request
FiberReadPdf(i) ==
    /\ program \in EffectPdfPrograms
    /\ pc = "all"
    /\ fiber[i] = "pdf"
    /\ IF FileExists(PDF_SIZES[i], "pdf")
       THEN /\ fiber' = [fiber EXCEPT ![i] = "call"]
            /\ inflight' = inflight \cup {i}
            /\ netRequests' = netRequests + 1
            /\ UNCHANGED <<pc, fiberReturn, slots, completionOrder, errorLog>>
       ELSE Defect(i)
    /\ UNCHANGED <<results, responded, summary, exitCode>>
    /\ EffUnchanged

\* LanguageModel.generateText settles in fiber i; a failure is caught by
\* Effect.catchAll(logFailure(size))
FiberRemoteSettles(i) ==
    /\ program \in EffectPdfPrograms
    /\ pc = "all"
    /\ fiber[i] = "call"
    /\ \E o \in RemoteOutcomes(PDF_SIZES[i]) :
         /\ responded' = responded \cup {[case |-> i, status |-> Status(o),
                                           text |-> o.text]}
         /\ IF o.ok
            THEN /\ LET expected ==
                           readExpectedCode(MetadataOnDisk(PDF_SIZES[i])).value.text
                         r == CheckResponse(o.text, expected)
                     IN  FiberDone(i, [success |-> r.success,
                                       extracted |-> r.extracted,
                                       expected |-> expected])
                 /\ UNCHANGED errorLog
            ELSE /\ FiberDone(i, FailureRecord)
                 /\ errorLog' = errorLog \cup {[case |-> i, kind |-> o.error]}
    /\ UNCHANGED <<pc, results, netRequests, summary, exitCode>>
    /\ EffUnchanged

\* every fiber has finished: Effect.all returns the array
EffectAllJoin ==
    /\ program \in EffectPdfPrograms
    /\ pc = "all"
    /\ \A i \in DOMAIN fiber : fiber[i] = "done"
    /\ results' = [i \in DOMAIN slots |-> slots[i]]
    /\ pc' = "summary"
    /\ UNCHANGED <<fiber, fiberReturn, slots, completionOrder, errorLog,
                   inflight, netRequests, responded, summary, exitCode>>
    /\ EffUnchanged

\* passed/total summary; the program returns 0 or 1 and process.exit(exitCode)
EffectSummary ==
    /\ program \in EffectPdfPrograms
    /\ pc = "summary"
    /\ summary' = [printed |-> TRUE, passed |-> Passed(results),
                    total |-> Len(results)]
    /\ exitCode' = ExitStatus(Passed(results), Len(results))
    /\ pc' = "exited"
    /\ UNCHANGED <<fiber, fiberReturn, slots, completionOrder, results,
                   errorLog, inflight, netRequests, responded>>
    /\ EffUnchanged

\* Effect.runPromise rejects, the top-level await throws: the runtime prints
\* the error and the process ends with status 1
UnhandledRejection ==
    /\ program \in EffectPdfPrograms
    /\ pc = "died"
    /\ exitCode' = 1
    /\ pc' = "exited"
    /\ UNCHANGED <<fiber, fiberReturn, slots, completionOrder, results,
                   errorLog, inflight, netRequests, responded, summary>>
    /\ EffUnchanged

(***************************************************************************)
(* Specification of the PDF batch runners                                  *)
(***************************************************************************)
NoSummary == [printed |-> FALSE, passed |-> 0, total |-> 0]

InitPdf ==
    /\ program \in PdfPrograms
    /\ apiKeySet \in BOOLEAN
    /\ missingFiles \in {m \in SUBSET FixtureFiles : Cardinality(m) <= MaxMissing}
    /\ pc = IF program \in SeqPdfPrograms THEN "meta" ELSE "all"
    /\ idx = IF program \in SeqPdfPrograms THEN 1 ELSE 0
    /\ expectedCode = Null
    /\ fiber = IF program \in SeqPdfPrograms THEN <<>>
               ELSE [i \in SizeIndex |-> "meta"]
    /\ fiberReturn = IF program \in SeqPdfPrograms THEN <<>>
                     ELSE [i \in SizeIndex |-> EmptySlot]
    /\ slots = IF program \in SeqPdfPrograms THEN <<>>
               ELSE [i \in SizeIndex |-> EmptySlot]
    /\ completionOrder = <<>>
    /\ results = <<>>
    /\ errorLog = {}
    /\ inflight = {}
    /\ netRequests = 0
    /\ responded = {}
    /\ successfulResults = <<>>
    /\ failedResults = <<>>
    /\ failed = 0
    /\ lateEvents = {}
    /\ usage = <<>>
    /\ cached = <<>>
    /\ flags = {}
    /\ verdict = None
    /\ summary = NoSummary
    /\ exitCode = None
    /\ now = 0
    /\ testId = 0
    /\ sent = <<>>
    /\ report = <<>>
    /\ input = <<>>
    /\ output = <<>>
    /\ isLoading = FALSE
    /\ conversation = [chats |-> <<>>]
    /\ calls = <<>>
    /\ clears = 0

NextPdf ==
    \/ SeqReadExpectedCode
    \/ SeqReadPdf
    \/ SeqRemoteSettles
    \/ SeqSummary
    \/ \E i \in SizeIndex : FiberReadExpectedCode(i)
    \/ \E i \in SizeIndex : FiberReadPdf(i)
    \/ \E i \in SizeIndex : FiberRemoteSettles(i)
    \/ EffectAllJoin
    \/ EffectSummary
    \/ UnhandledRejection

SpecPdf == InitPdf /\ [][NextPdf]_vars

\* every pending file read and remote call eventually settles: a step of the
\* runner that can be taken is eventually taken
SpecPdfFair == SpecPdf /\ WF_vars(NextPdf)

(***************************************************************************)
(* Effect parallel example runner: effect-ai/run-examples.ts               *)
(***************************************************************************)
RunnerPrograms == {"run_examples"}

\* findExamples returns the example paths sorted; a path is modelled by its
\* rank in that order
Examples == [i \in 1..NumExamples |-> i]

RunUnchanged == UNCHANGED <<envVars, uiVars, seqVars, probeVars, fnVars, callVars>>

\* how a child process can end: exit code 0, a non-zero exit code, killed by
\* a signal (close with code null), or never spawned (error event)
ChildOutcomes == {"exit0", "exit1", "signal", "spawn_error"}

\* code ?? 0 of the close handler
CloseCode(o) == IF o = "exit1" THEN 1 ELSE 0

\* the Exit value of one example task (Effect.exit(runExample(...)))
TaskExit(i, o) ==
    IF o = "spawn_error"
    THEN [tag |-> "Failure", example |-> Examples[i], exitCode |-> 0 - 1,
          success |-> FALSE]
    ELSE [tag |-> "Success", example |-> Examples[i], exitCode |-> CloseCode(o),
          success |-> (CloseCode(o) = 0)]

RunnerEmptySlot == [tag |-> "Empty", example |-> 0, exitCode |-> 0,
                    success |-> FALSE]

\* an example counts as successful when its Exit is a success
CountsAsSuccess(exit) == exit.tag = "Success"

\* the loop over results: successes keep their result record
RECURSIVE SuccessfulOf(_, _)
SuccessfulOf(rs, index) ==
    IF index > Len(rs) THEN <<>>
    ELSE (IF CountsAsSuccess(rs[index]) THEN <<rs[index]>> ELSE <<>>)
             \o SuccessfulOf(rs, index + 1)

\* the loop over results: failures are named after examples[index]
RECURSIVE FailedOf(_, _)
FailedOf(rs, index) ==
    IF index > Len(rs) THEN <<>>
    ELSE (IF CountsAsSuccess(rs[index]) THEN <<>>
          ELSE <<[example |-> Examples[index], error |-> rs[index]]>>)
             \o FailedOf(rs, index + 1)

\* a check that reports a missing example and lets the run go on
RunnerCheckExistsLenient(i) ==
    /\ program \in RunnerPrograms
    /\ pc = "check"
    /\ fiber[i] = "check"
    /\ \E exists \in BOOLEAN :
         /\ fiber' = [fiber EXCEPT ![i] = "checked"]
         /\ errorLog' = IF exists THEN errorLog
                        ELSE errorLog \cup {[case |-> i, kind |-> "not_found"]}
         /\ UNCHANGED <<pc, exitCode>>
    /\ UNCHANGED <<fiberReturn, slots, completionOrder, runnerVars, results,
                   inflight, netRequests, responded, summary>>
    /\ RunUnchanged

\* checkExampleExists(example) runs for example i
RunnerCheckExists(i) ==
    /\ program \in RunnerPrograms
    /\ pc = "check"
    /\ fiber[i] = "check"
    /\ \E exists \in BOOLEAN :
         IF exists
         THEN /\ fiber' = [fiber EXCEPT ![i] = "checked"]
              /\ UNCHANGED <<pc, errorLog, exitCode>>
         ELSE \* ExampleNotFoundError: Effect.all fails, handleError exits 1
              /\ fiber' = [j \in DOMAIN fiber |->
                             IF j = i THEN "died"
                             ELSE IF fiber[j] = "checked" THEN "checked"
                             ELSE "interrupted"]
              /\ errorLog' = errorLog \cup {[case |-> i, kind |-> "not_found"]}
              /\ exitCode' = 1
              /\ pc' = "exited"
    /\ UNCHANGED <<fiberReturn, slots, completionOrder, runnerVars, results,
                   inflight, netRequests, responded, summary>>
    /\ RunUnchanged

\* every check succeeded: all example tasks are forked and each spawns its
\* child process
RunnerLaunch ==
    /\ program \in RunnerPrograms
    /\ pc = "check"
    /\ \A i \in DOMAIN fiber : fiber[i] = "checked"
    /\ fiber' = [i \in DOMAIN fiber |-> "running"]
    /\ inflight' = DOMAIN fiber
    /\ pc' = "all"
    /\ UNCHANGED <<fiberReturn, slots, completionOrder, runnerVars, results,
                   errorLog, netRequests, responded, summary, exitCode>>
    /\ RunUnchanged

\* the child process of example i closes or fails to spawn
RunnerChildSettles(i) ==
    /\ program \in RunnerPrograms
    /\ pc = "all"
    /\ fiber[i] = "running"
    /\ \E o \in ChildOutcomes :
         /\ responded' = responded \cup {[case |-> i, status |-> o]}
         /\ FiberDone(i, TaskExit(i, o))
    /\ UNCHANGED <<pc, runnerVars, results, errorLog, netRequests, summary,
                   exitCode>>
    /\ RunUnchanged

\* the other event of a child whose task has already resumed: 'close' after
\* 'error', or 'error' after 'close'
LateEventOf(o) == IF o = "spawn_error" THEN "close" ELSE "error"

\* the Exit the second resume call is given
LateExit(i, e) ==
    IF e = "error"
    THEN TaskExit(i, "spawn_error")
    ELSE [tag |-> "Success", example |-> Examples[i], exitCode |-> 0 - 2,
          success |-> FALSE]

\* a second resume replaces the result of the task
ResumeAgainOverwrites(current, late) == late

\* Effect.async honours the first call of resume only
ResumeAgain(current, late) == current

\* the second event of the child of example i fires and its handler calls
\* resume once more
RunnerLateEvent(i) ==
    /\ program \in RunnerPrograms
    /\ pc = "all"
    /\ fiber[i] = "done"
    /\ i \notin {l.case : l \in lateEvents}
    /\ \E r \in responded :
         /\ r.case = i
         /\ lateEvents' = lateEvents \cup
                             {[case |-> i, event |-> LateEventOf(r.status)]}
         /\ fiberReturn' = [fiberReturn EXCEPT ![i] =
                ResumeAgain(fiberReturn[i], LateExit(i, LateEventOf(r.status)))]
         /\ slots' = [slots EXCEPT ![i] =
                ResumeAgain(slots[i], LateExit(i, LateEventOf(r.status)))]
    /\ UNCHANGED <<pc, fiber, completionOrder, successfulResults,
                   failedResults, failed, results, errorLog, inflight,
                   netRequests, responded, summary, exitCode>>
    /\ RunUnchanged

\* Effect.all returns; results are split, the summary is printed and main
\* exits with success ? 0 : 1
RunnerProcessResults ==
    /\ program \in RunnerPrograms
    /\ pc = "all"
    /\ \A i \in DOMAIN fiber : fiber[i] = "done"
    /\ results' = [i \in DOMAIN slots |-> slots[i]]
    /\ successfulResults' = SuccessfulOf(results', 1)
    /\ failedResults' = FailedOf(results', 1)
    /\ summary' = [printed |-> TRUE, passed |-> Len(successfulResults'),
                    total |-> Len(Examples)]
    /\ exitCode' = IF Len(failedResults') > 0 THEN 1 ELSE 0
    /\ pc' = "exited"
    /\ UNCHANGED <<concVars, errorLog, inflight, netRequests, responded, failed,
                   lateEvents>>
    /\ RunUnchanged

InitRunner ==
    /\ program \in RunnerPrograms
    /\ apiKeySet \in BOOLEAN
    /\ missingFiles = {}
    /\ pc = "check"
    /\ idx = 0
    /\ expectedCode = Null
    /\ fiber = [i \in 1..NumExamples |-> "check"]
    /\ fiberReturn = [i \in 1..NumExamples |-> RunnerEmptySlot]
    /\ slots = [i \in 1..NumExamples |-> RunnerEmptySlot]
    /\ completionOrder = <<>>
    /\ results = <<>>
    /\ errorLog = {}
    /\ inflight = {}
    /\ netRequests = 0
    /\ responded = {}
    /\ successfulResults = <<>>
    /\ failedResults = <<>>
    /\ failed = 0
    /\ lateEvents = {}
    /\ usage = <<>>
    /\ cached = <<>>
    /\ flags = {}
    /\ verdict = None
    /\ summary = NoSummary
    /\ exitCode = None
    /\ now = 0
    /\ testId = 0
    /\ sent = <<>>
    /\ report = <<>>
    /\ input = <<>>
    /\ output = <<>>
    /\ isLoading = FALSE
    /\ conversation = [chats |-> <<>>]
    /\ calls = <<>>
    /\ clears = 0

NextRunner ==
    \/ \E i \in 1..NumExamples : RunnerCheckExists(i)
    \/ RunnerLaunch
    \/ \E i \in 1..NumExamples : RunnerChildSettles(i)
    \/ \E i \in 1..NumExamples : RunnerLateEvent(i)
    \/ RunnerProcessResults

SpecRunner == InitRunner /\ [][NextRunner]_vars

(***************************************************************************)
(* Sequential example runner: one child process at a time                  *)
(***************************************************************************)
SeqRunnerPrograms == {"run_all_examples"}

ExampleRunners == RunnerPrograms \cup SeqRunnerPrograms

\* await $`bun run ${example}`.quiet() throws unless the command's exit code
\* is 0 (a child killed by a signal and a command that could not be started
\* have a non-zero exit code)
ShellThrows(o) == o # "exit0"

\* one iteration of the loop: the child of examples[idx] ends; the catch
\* block counts the failure
SeqRunnerChildSettles ==
    /\ program \in SeqRunnerPrograms
    /\ pc = "run"
    /\ idx <= Len(Examples)
    /\ \E o \in ChildOutcomes :
         /\ responded' = responded \cup {[case |-> idx, status |-> o]}
         /\ failed' = IF ShellThrows(o) THEN failed + 1 ELSE failed
    /\ idx' = idx + 1
    /\ UNCHANGED <<pc, expectedCode, concVars, successfulResults,
                   failedResults, lateEvents, results, errorLog, inflight,
                   netRequests, summary, exitCode>>
    /\ UNCHANGED <<envVars, uiVars, probeVars, fnVars, callVars>>

\* after the loop: "Results: passed/total" and process.exit(1) if failed > 0
SeqRunnerSummary ==
    /\ program \in SeqRunnerPrograms
    /\ pc = "run"
    /\ idx > Len(Examples)
    /\ summary' = [printed |-> TRUE, passed |-> Len(Examples) - failed,
                    total |-> Len(Examples)]
    /\ exitCode' = IF failed > 0 THEN 1 ELSE 0
    /\ pc' = "exited"
    /\ UNCHANGED <<seqVars, concVars, runnerVars, results, errorLog, inflight,
                   netRequests, responded>>
    /\ UNCHANGED <<envVars, uiVars, probeVars, fnVars, callVars>>

InitSeqRunner ==
    /\ program \in SeqRunnerPrograms
    /\ apiKeySet \in BOOLEAN
    /\ missingFiles = {}
    /\ pc = "run"
    /\ idx = 1
    /\ expectedCode = Null
    /\ fiber = <<>>
    /\ fiberReturn = <<>>
    /\ slots = <<>>
    /\ completionOrder = <<>>
    /\ results = <<>>
    /\ errorLog = {}
    /\ inflight = {}
    /\ netRequests = 0
    /\ responded = {}
    /\ successfulResults = <<>>
    /\ failedResults = <<>>
    /\ failed = 0
    /\ lateEvents = {}
    /\ usage = <<>>
    /\ cached = <<>>
    /\ flags = {}
    /\ verdict = None
    /\ summary = NoSummary
    /\ exitCode = None
    /\ now = 0
    /\ testId = 0
    /\ sent = <<>>
    /\ report = <<>>
    /\ input = <<>>
    /\ output = <<>>
    /\ isLoading = FALSE
    /\ conversation = [chats |-> <<>>]
    /\ calls = <<>>
    /\ clears = 0

NextSeqRunner ==
    \/ SeqRunnerChildSettles
    \/ SeqRunnerSummary

(***************************************************************************)
(* The two example runners                                                 *)
(***************************************************************************)
InitExamples == InitRunner \/ InitSeqRunner

NextExamples ==
    \/ \E i \in 1..NumExamples : RunnerCheckExists(i)
    \/ RunnerLaunch
    \/ \E i \in 1..NumExamples : RunnerChildSettles(i)
    \/ \E i \in 1..NumExamples : RunnerLateEvent(i)
    \/ RunnerProcessResults
    \/ SeqRunnerChildSettles
    \/ SeqRunnerSummary

SpecExamples == InitExamples /\ [][NextExamples]_vars

(***************************************************************************)
(* The two runners that run their cases concurrently                       *)
(***************************************************************************)
InitConcurrent ==
    \/ InitPdf /\ program \in EffectPdfPrograms
    \/ InitRunner

NextConcurrent ==
    \/ \E i \in SizeIndex : FiberReadExpectedCode(i)
    \/ \E i \in SizeIndex : FiberReadPdf(i)
    \/ \E i \in SizeIndex : FiberRemoteSettles(i)
    \/ EffectAllJoin
    \/ EffectSummary
    \/ UnhandledRejection
    \/ NextRunner

SpecConcurrent == InitConcurrent /\ [][NextConcurrent]_vars

(***************************************************************************)
(* Cache-probe, control and reasoning examples: two identical calls one    *)
(* second apart (one call for the reasoning example), then the analysis    *)
(***************************************************************************)
\* examples that send a cache directive
CacheProbePrograms == {"fetch_cache_multi", "aisdk_cache_multi",
                       "aisdk_cache_user", "effect_cache_user",
                       "effect_cache_multi"}

\* control examples: no cache directive
ControlPrograms == {"fetch_control", "aisdk_control", "effect_control"}

ReasoningPrograms == {"fetch_reasoning"}

PairPrograms == CacheProbePrograms \cup ControlPrograms

ProbePrograms == PairPrograms \cup ReasoningPrograms

\* programs whose runtime is Effect: no catch block, the key is not checked
EffectProbes == {"effect_cache_user", "effect_cache_multi", "effect_control"}

\* cache probes whose analysis prints a line about the first call
FirstCallLinePrograms == {"fetch_cache_multi", "aisdk_cache_user"}

ProbeUnchanged == UNCHANGED <<envVars, uiVars, seqVars, concVars, runnerVars, fnVars,
                              results, summary>>

\* usage accounting of one response: the token-count field the example reads
\* (cached_tokens / cachedTokens / cachedInputTokens / reasoning_tokens), which
\* may be absent, and whether message.reasoning holds a text
Usages(prog) ==
    {[present |-> FALSE, value |-> 0, reasoning |-> r] :
        r \in (IF prog \in ReasoningPrograms THEN BOOLEAN ELSE {FALSE})}
    \cup
    {[present |-> TRUE, value |-> v, reasoning |-> r] :
        v \in 0..MaxTokens,
        r \in (IF prog \in ReasoningPrograms THEN BOOLEAN ELSE {FALSE})}

\* the field read without "?? 0", -1 standing for undefined
TokenCountNoDefault(u) == IF u.present THEN u.value ELSE 0 - 1

\* usage.prompt_tokens_details?.cached_tokens ?? 0 and its equivalents
TokenCount(u) == IF u.present THEN u.value ELSE 0

\* what a call of a probe can settle with
ProbeOutcomes(prog) ==
    {[ok |-> FALSE, usage |-> [present |-> FALSE, value |-> 0, reasoning |-> FALSE],
      error |-> e] : e \in RemoteErrors}
    \cup
    (IF apiKeySet
     THEN {[ok |-> TRUE, usage |-> u, error |-> None] : u \in Usages(prog)}
     ELSE {})

\* a test that looks at the second call only
CacheWorkingSecondOnly(cached1, cached2) == cached2 > 0

\* const success = cached1 === 0 && cached2 > 0
CacheWorking(cached1, cached2) == cached1 = 0 /\ cached2 > 0

\* a test that is content with one zero count
ControlValidEither(cached1, cached2) == cached1 = 0 \/ cached2 = 0

\* const success = cached1 === 0 && cached2 === 0
ControlValid(cached1, cached2) == cached1 = 0 /\ cached2 = 0

\* const success = reasoningTokens > 0 && reasoning
ReasoningWorking(reasoningTokens, reasoning) == reasoningTokens > 0 /\ reasoning

\* the success flag of the analysis
Verdict(prog, c1, c2, reasoning) ==
    LET ok == CASE prog \in CacheProbePrograms -> CacheWorking(c1, c2)
                [] prog \in ControlPrograms -> ControlValid(c1, c2)
                [] prog \in ReasoningPrograms -> ReasoningWorking(c1, reasoning)
    IN  IF ok THEN "success" ELSE "failure"

\* the diagnostic lines the analysis prints before the result
AnalysisFlags(prog, c1, c2) ==
    (IF prog \in FirstCallLinePrograms
     THEN {IF c1 = 0 THEN "first_call_miss" ELSE "first_call_unexpected_hit",
           IF c2 > 0 THEN "second_call_hit" ELSE "second_call_miss"}
     ELSE {})
    \cup
    (IF prog \in ControlPrograms
     THEN {IF c1 = 0 /\ c2 = 0 THEN "no_cache_metrics"
           ELSE "unexpected_cache_metrics"}
     ELSE {})
    \cup
    (IF prog \in ReasoningPrograms
     THEN {IF c1 > 0 THEN "reasoning_enabled" ELSE "no_reasoning_tokens"}
     ELSE {})

(***************************************************************************)
(* The requests of the probes.  A text is a sequence of parts; a content   *)
(* block is a text with or without a cache directive; a message whose      *)
(* content is a plain string is a message of one block without directive.  *)
(***************************************************************************)
\* shared/src/constants.ts
LARGE_SYSTEM_PROMPT == "LARGE_SYSTEM_PROMPT"

TextBlock(text, cacheControl) == [text |-> text, cache |-> cacheControl]

Message(role, content) == [role |-> role, content |-> content]

Request(model, messages) == [model |-> model, messages |-> messages]

\* examples that take testId = Date.now() when they start
TestIdPrograms == {"aisdk_cache_multi", "aisdk_cache_user", "aisdk_control",
                   "effect_cache_user", "effect_cache_multi", "effect_control"}

\* a large context that leaves the test id out
LargeContextNoId(intro, id) == <<"Test", intro, LARGE_SYSTEM_PROMPT>>

\* const largeContext = `Test ${testId}: <intro>\n\n${LARGE_SYSTEM_PROMPT}`
LargeContext(intro, id) ==
    <<"Test ">> \o Decimal(id) \o <<intro, LARGE_SYSTEM_PROMPT>>

\* fetch multi-message example: const requestBody
FetchMultiBody ==
    Request("anthropic/claude-3.5-sonnet",
      << Message("system", <<TextBlock(<<LARGE_SYSTEM_PROMPT>>, TRUE)>>),
         Message("user", <<TextBlock(<<"Hello, what's your name?">>, FALSE)>>),
         Message("assistant",
           <<TextBlock(<<"I'm Claude, an AI assistant created by Anthropic.">>,
                       FALSE)>>),
         Message("user",
           <<TextBlock(<<"What programming languages do you know?">>, FALSE)>>) >>)

\* fetch control example: const requestBody
FetchControlBody ==
    Request("anthropic/claude-3.5-sonnet",
      << Message("system", <<TextBlock(<<LARGE_SYSTEM_PROMPT>>, FALSE)>>),
         Message("user",
           <<TextBlock(<<"What are the key principles you follow?">>, FALSE)>>) >>)

\* fetch reasoning example: const requestBody
ReasoningBody ==
    Request("google/gemini-3-pro-preview",
      << Message("user",
           <<TextBlock(<<"Solve this problem step by step: ...">>, FALSE)>>) >>)

\* AI SDK multi-message example: the first generateText call
AiSdkMultiCall1(id) ==
    Request("anthropic/claude-3-5-sonnet",
      << Message("user",
           << TextBlock(LargeContext(": Context:", id), TRUE),
              TextBlock(<<"Hello, what's your purpose?">>, FALSE) >>),
         Message("assistant",
           <<TextBlock(<<"I'm an AI assistant designed to help with various tasks.">>,
                       FALSE)>>),
         Message("user",
           <<TextBlock(<<"What programming languages do you know?">>, FALSE)>>) >>)

\* AI SDK multi-message example: the second generateText call
AiSdkMultiCall2(id) ==
    Request("anthropic/claude-3-5-sonnet",
      << Message("user",
           << TextBlock(LargeContext(": Context:", id), TRUE),
              TextBlock(<<"Hello, what's your purpose?">>, FALSE) >>),
         Message("assistant",
           <<TextBlock(<<"I'm an AI assistant designed to help with various tasks.">>,
                       FALSE)>>),
         Message("user",
           <<TextBlock(<<"What programming languages do you know?">>, FALSE)>>) >>)

\* AI SDK user-message example: the first generateText call
AiSdkUserCall1(id) ==
    Request("anthropic/claude-3-5-sonnet",
      << Message("user",
           << TextBlock(LargeContext(": Here is a comprehensive codebase to analyze:",
                                     id), TRUE),
              TextBlock(<<"Based on this codebase, what are the main patterns used?">>,
                        FALSE) >>) >>)

\* AI SDK user-message example: the second generateText call
AiSdkUserCall2(id) ==
    Request("anthropic/claude-3-5-sonnet",
      << Message("user",
           << TextBlock(LargeContext(": Here is a comprehensive codebase to analyze:",
                                     id), TRUE),
              TextBlock(<<"Based on this codebase, what are the main patterns used?">>,
                        FALSE) >>) >>)

\* AI SDK control example: the first generateText call
AiSdkControlCall1(id) ==
    Request("anthropic/claude-3-5-sonnet",
      << Message("user",
           << TextBlock(LargeContext(": Context:", id), FALSE),
              TextBlock(<<"What are the key principles?">>, FALSE) >>) >>)

\* AI SDK control example: the second generateText call
AiSdkControlCall2(id) ==
    Request("anthropic/claude-3-5-sonnet",
      << Message("user",
           << TextBlock(LargeContext(": Context:", id), FALSE),
              TextBlock(<<"What are the key principles?">>, FALSE) >>) >>)

\* Effect AI user-message example: makePrompt()
EffectUserPrompt(id) ==
    Request("anthropic/claude-3.5-sonnet",
      << Message("user",
           << TextBlock(LargeContext(": Here is a comprehensive codebase to analyze:",
                                     id), TRUE),
              TextBlock(<<"Based on this codebase, what are the main patterns used?">>,
                        FALSE) >>) >>)

\* Effect AI multi-message example: makePrompt()
EffectMultiPrompt(id) ==
    Request("anthropic/claude-3.5-sonnet",
      << Message("user",
           << TextBlock(LargeContext(": Context:", id), TRUE),
              TextBlock(<<"Hello, what's your purpose?">>, FALSE) >>),
         Message("assistant",
           <<TextBlock(<<"I'm an AI assistant designed to help with various tasks.">>,
                       FALSE)>>),
         Message("user",
           <<TextBlock(<<"What programming languages do you know?">>, FALSE)>>) >>)

\* Effect AI control example: makePrompt()
EffectControlPrompt(id) ==
    Request("anthropic/claude-3.5-sonnet",
      << Message("user",
           << TextBlock(LargeContext(": Context:", id), FALSE),
              TextBlock(<<"What are the key principles?">>, FALSE) >>) >>)

\* the request of call n, built from the test id taken at the start (the
\* clock reading at the time of the call is not used)
RequestBuilt(prog, n, id) ==
    CASE prog = "fetch_cache_multi" -> FetchMultiBody
      [] prog = "fetch_control" -> FetchControlBody
      [] prog = "fetch_reasoning" -> ReasoningBody
      [] prog = "aisdk_cache_multi" ->
            IF n = 1 THEN AiSdkMultiCall1(id) ELSE AiSdkMultiCall2(id)
      [] prog = "aisdk_cache_user" ->
            IF n = 1 THEN AiSdkUserCall1(id) ELSE AiSdkUserCall2(id)
      [] prog = "aisdk_control" ->
            IF n = 1 THEN AiSdkControlCall1(id) ELSE AiSdkControlCall2(id)
      [] prog = "effect_cache_user" -> EffectUserPrompt(id)
      [] prog = "effect_cache_multi" -> EffectMultiPrompt(id)
      [] prog = "effect_control" -> EffectControlPrompt(id)

\* a request that takes a fresh Date.now() for every call
RequestOfCallFreshId(prog, n, id, clock) == RequestBuilt(prog, n, clock)

RequestOfCall(prog, n, id, clock) == RequestBuilt(prog, n, id)

\* the cached-token count of the line printed after each call
\* (cached_tokens ?? 0, cachedTokens ?? 0, cachedInputTokens ?? 0)
ReportedCount(u) == IF u.present THEN u.value ELSE 0

\* a thrown error ends the run: the catch block (fetch, AI SDK) calls
\* process.exit(1); in the Effect examples runPromise rejects
ProbeFails(n, kind) ==
    /\ errorLog' = errorLog \cup {[case |-> n, kind |-> kind]}
    /\ inflight' = {}
    /\ exitCode' = 1
    /\ pc' = "exited"

\* time that passes while a call is in flight, in seconds
CallDurations == 0..1

\* a start that issues both calls at once
ProbeStartBoth ==
    /\ program \in ProbePrograms
    /\ pc = "start"
    /\ testId' = IF program \in TestIdPrograms THEN now ELSE testId
    /\ inflight' = {1, 2}
    /\ netRequests' = netRequests + 2
    /\ sent' = <<[request |-> RequestOfCall(program, 1, testId', now), at |-> now],
                 [request |-> RequestOfCall(program, 2, testId', now), at |-> now]>>
    /\ pc' = "call1"
    /\ UNCHANGED <<errorLog, exitCode, probeVars, responded, now, report>>
    /\ ProbeUnchanged

\* main starts: the examples that use one take the test id; the first call
\* is issued
ProbeStart ==
    /\ program \in ProbePrograms
    /\ pc = "start"
    /\ testId' = IF program \in TestIdPrograms THEN now ELSE testId
    /\ IF program \notin EffectProbes /\ ~apiKeySet
       THEN ProbeFails(1, "apikey") /\ UNCHANGED <<netRequests, sent>>
       ELSE /\ inflight' = {1}
            /\ netRequests' = netRequests + 1
            /\ sent' = Append(sent, [request |-> RequestOfCall(program, 1, testId', now),
                                     at |-> now])
            /\ pc' = "call1"
            /\ UNCHANGED <<errorLog, exitCode>>
    /\ UNCHANGED <<probeVars, responded, now, report>>
    /\ ProbeUnchanged

\* the first call of a two-call example settles; on success the per-call
\* line is printed and the example starts its one-second pause
ProbeFirstSettles ==
    /\ program \in PairPrograms
    /\ pc = "call1"
    /\ \E o \in ProbeOutcomes(program), d \in CallDurations :
         /\ now' = now + d
         /\ responded' = responded \cup
                           {[case |-> 1, status |-> Status(o), at |-> now']}
         /\ IF o.ok
            THEN /\ usage' = <<o.usage>>
                 /\ cached' = <<TokenCount(o.usage)>>
                 /\ report' = <<ReportedCount(o.usage)>>
                 /\ inflight' = {}
                 /\ pc' = "sleep"
                 /\ UNCHANGED <<errorLog, exitCode>>
            ELSE ProbeFails(1, o.error) /\ UNCHANGED <<usage, cached, report>>
    /\ UNCHANGED <<flags, verdict, netRequests, testId, sent>>
    /\ ProbeUnchanged

\* the one-second pause is over: the second call is issued
ProbeSleepDone ==
    /\ program \in PairPrograms
    /\ pc = "sleep"
    /\ now' = now + 1
    /\ inflight' = {2}
    /\ netRequests' = netRequests + 1
    /\ sent' = Append(sent, [request |-> RequestOfCall(program, 2, testId, now'),
                             at |-> now'])
    /\ pc' = "call2"
    /\ UNCHANGED <<probeVars, errorLog, responded, exitCode, testId, report>>
    /\ ProbeUnchanged

\* the second call settles; on success the per-call line is printed, the
\* analysis runs and the program ends without calling process.exit
ProbeSecondSettles ==
    /\ program \in PairPrograms
    /\ pc = "call2"
    /\ \E o \in ProbeOutcomes(program), d \in CallDurations :
         /\ now' = now + d
         /\ responded' = responded \cup
                           {[case |-> 2, status |-> Status(o), at |-> now']}
         /\ IF o.ok
            THEN /\ usage' = Append(usage, o.usage)
                 /\ cached' = Append(cached, TokenCount(o.usage))
                 /\ report' = Append(report, ReportedCount(o.usage))
                 /\ flags' = AnalysisFlags(program, cached[1], TokenCount(o.usage))
                 /\ verdict' = Verdict(program, cached[1], TokenCount(o.usage), FALSE)
                 /\ inflight' = {}
                 /\ exitCode' = 0
                 /\ pc' = "exited"
                 /\ UNCHANGED errorLog
            ELSE ProbeFails(2, o.error) /\ UNCHANGED <<probeVars, report>>
    /\ UNCHANGED <<netRequests, testId, sent>>
    /\ ProbeUnchanged

\* the only call of the reasoning example settles; on success the analysis
\* runs and the program ends without calling process.exit
ReasoningSettles ==
    /\ program \in ReasoningPrograms
    /\ pc = "call1"
    /\ \E o \in ProbeOutcomes(program), d \in CallDurations :
         /\ now' = now + d
         /\ responded' = responded \cup
                           {[case |-> 1, status |-> Status(o), at |-> now']}
         /\ IF o.ok
            THEN /\ usage' = <<o.usage>>
                 /\ cached' = <<TokenCount(o.usage)>>
                 /\ report' = <<ReportedCount(o.usage)>>
                 /\ flags' = AnalysisFlags(program, TokenCount(o.usage), 0)
                 /\ verdict' = Verdict(program, TokenCount(o.usage), 0, o.usage.reasoning)
                 /\ inflight' = {}
                 /\ exitCode' = 0
                 /\ pc' = "exited"
                 /\ UNCHANGED errorLog
            ELSE ProbeFails(1, o.error) /\ UNCHANGED <<probeVars, report>>
    /\ UNCHANGED <<netRequests, testId, sent>>
    /\ ProbeUnchanged

InitProbe ==
    /\ program \in ProbePrograms
    /\ apiKeySet \in BOOLEAN
    /\ missingFiles = {}
    /\ pc = "start"
    /\ idx = 0
    /\ expectedCode = Null
    /\ fiber = <<>>
    /\ fiberReturn = <<>>
    /\ slots = <<>>
    /\ completionOrder = <<>>
    /\ results = <<>>
    /\ errorLog = {}
    /\ inflight = {}
    /\ netRequests = 0
    /\ responded = {}
    /\ successfulResults = <<>>
    /\ failedResults = <<>>
    /\ failed = 0
    /\ lateEvents = {}
    /\ usage = <<>>
    /\ cached = <<>>
    /\ flags = {}
    /\ verdict = None
    /\ summary = NoSummary
    /\ exitCode = None
    /\ now \in 1..MaxStart
    /\ testId = 0
    /\ sent = <<>>
    /\ report = <<>>
    /\ input = <<>>
    /\ output = <<>>
    /\ isLoading = FALSE
    /\ conversation = [chats |-> <<>>]
    /\ calls = <<>>
    /\ clears = 0

NextProbe ==
    \/ ProbeStart
    \/ ProbeFirstSettles
    \/ ProbeSleepDone
    \/ ProbeSecondSettles
    \/ ReasoningSettles

SpecProbe == InitProbe /\ [][NextProbe]_vars

(***************************************************************************)
(* The helper functions of typescript/shared/src/fixtures.ts, each called  *)
(* once on an argument the run picks                                       *)
(***************************************************************************)
HelperPrograms == {"check_response", "read_expected_code", "format_size"}

\* what may stand in a response text before the code
Prefixes(size) ==
    { <<>>,
      <<"T","h","e"," ","c","o","d","e"," ","i","s"," ">>,
      <<"A">>,
      <<"x">>,
      <<"7">>,
      <<"-">>,
      <<"A","B","-">>,
      <<"N","O","-","1","2"," ">>,
      <<"s","m","a","l","l","-","7","x","9","q","2"," ">>,
      VerificationCode(OtherSize(size)) \o <<" ">> }

\* what may stand in a response text after the code
Suffixes(size) ==
    { <<>>,
      <<",">>,
      <<"Z">>,
      <<"9">>,
      <<"x">>,
      <<"-","A">>,
      <<" ">> \o VerificationCode(OtherSize(size)) }

\* response texts checked against the code of one size class: with the code
\* embedded verbatim, and without it
CheckInputs ==
    UNION {
      {[text |-> pre \o VerificationCode(PDF_SIZES[i]) \o suf,
        expected |-> VerificationCode(PDF_SIZES[i])] :
           pre \in Prefixes(PDF_SIZES[i]), suf \in Suffixes(PDF_SIZES[i])}
      \cup
      {[text |-> pre \o suf, expected |-> VerificationCode(PDF_SIZES[i])] :
           pre \in Prefixes(PDF_SIZES[i]), suf \in Suffixes(PDF_SIZES[i])}
      : i \in SizeIndex }

\* what the metadata file of one size class may hold when readExpectedCode
\* opens it
MetadataFiles(size) ==
    { AbsentFile,
      [exists |-> TRUE, json |-> "invalid", fields |-> {}],
      [exists |-> TRUE, json |-> "null", fields |-> {}],
      [exists |-> TRUE, json |-> "array", fields |-> {}],
      GeneratedMetadata(size),
      GeneratedMetadata(OtherSize(size)),
      [exists |-> TRUE, json |-> "object", fields |-> {}],
      [exists |-> TRUE, json |-> "object",
       fields |-> {<<"type", JsString(<<"t","e","s","t","_","f","i","x","t","u","r","e">>)>>}],
      [exists |-> TRUE, json |-> "object",
       fields |-> {<<"verification_code", JsString(VerificationCode(size))>>}],
      [exists |-> TRUE, json |-> "object",
       fields |-> {<<"verificationCode",
                     [type |-> "number", text |-> <<"1","2","3","4","5">>]>>}],
      [exists |-> TRUE, json |-> "object",
       fields |-> {<<"verificationCode", [type |-> "null", text |-> <<>>]>>}] }

ReadInputs == UNION {MetadataFiles(PDF_SIZES[i]) : i \in SizeIndex}

\* byte counts formatSize is called with: around zero, the rounding and
\* unit boundaries, and the sizes of the four fixtures
ByteCounts ==
    LET points == {0, 512, KiB, 33 * KiB, 813 * KiB, 1023 * KiB, MiB - 512,
                   MiB, MiB + MiB \div 4, 3565158, 11324621}
    IN  {b \in UNION {(p - Window)..(p + Window) : p \in points} : b >= 0}

HelperUnchanged == UNCHANGED <<envVars, uiVars, seqVars, concVars, runnerVars, probeVars,
                               callVars, input, results, errorLog, inflight, netRequests,
                               responded, summary, exitCode>>

\* the response handling of processPdf / testPdf on one response text
ApplyCheckResponse ==
    /\ program = "check_response"
    /\ pc = "start"
    /\ output' = CheckResponse(input.text, input.expected)
    /\ pc' = "returned"
    /\ HelperUnchanged

\* one call of readExpectedCode on a metadata file
ApplyReadExpectedCode ==
    /\ program = "read_expected_code"
    /\ pc = "start"
    /\ output' = readExpectedCode(input)
    /\ pc' = "returned"
    /\ HelperUnchanged

\* one call of formatSize on a byte count
ApplyFormatSize ==
    /\ program = "format_size"
    /\ pc = "start"
    /\ output' = formatSize(input)
    /\ pc' = "returned"
    /\ HelperUnchanged

InitHelpers ==
    /\ program \in HelperPrograms
    /\ input \in CASE program = "check_response" -> CheckInputs
                  [] program = "read_expected_code" -> ReadInputs
                  [] program = "format_size" -> ByteCounts
    /\ output = <<>>
    /\ isLoading = FALSE
    /\ conversation = [chats |-> <<>>]
    /\ calls = <<>>
    /\ clears = 0
    /\ apiKeySet = TRUE
    /\ missingFiles = {}
    /\ pc = "start"
    /\ idx = 0
    /\ expectedCode = Null
    /\ fiber = <<>>
    /\ fiberReturn = <<>>
    /\ slots = <<>>
    /\ completionOrder = <<>>
    /\ results = <<>>
    /\ errorLog = {}
    /\ inflight = {}
    /\ netRequests = 0
    /\ responded = {}
    /\ successfulResults = <<>>
    /\ failedResults = <<>>
    /\ failed = 0
    /\ lateEvents = {}
    /\ usage = <<>>
    /\ cached = <<>>
    /\ flags = {}
    /\ verdict = None
    /\ summary = NoSummary
    /\ exitCode = None
    /\ now = 0
    /\ testId = 0
    /\ sent = <<>>
    /\ report = <<>>

NextHelpers ==
    \/ ApplyCheckResponse
    \/ ApplyReadExpectedCode
    \/ ApplyFormatSize

SpecHelpers == InitHelpers /\ [][NextHelpers]_vars

(***************************************************************************)
(* Raycast extension: the useOpenRouter and useConversation hooks.  A      *)
(* component holds one instance of a hook; its ask / addChat calls run     *)
(* concurrently, each from its start up to the first await, then from one  *)
(* settled await to the next.                                              *)
(***************************************************************************)
\* use_conversation: the Conversation command, which calls addChat and
\* clearConversation; use_open_router: a component that calls ask and
\* askWithStructuredOutput of the hook directly
RaycastPrograms == {"use_conversation", "use_open_router"}

CallKinds(prog) ==
    IF prog = "use_conversation" THEN {"addChat"}
    ELSE {"ask", "askWithStructuredOutput"}

NoCall == [stage |-> "idle", kind |-> None, epoch |-> 0]

\* the Chat that ask returns for call r; uuidv4() gives every chat its own id
Chat(r) == [id |-> r, question |-> r]

\* what the body of a 2xx response can be: a completion whose content is
\* JSON, a completion whose content is plain text, or a body without choices
\* (or no JSON at all)
Bodies == {"json_content", "text_content", "no_choices"}

\* the call throws on this body: data.choices[0] of a body without choices,
\* and for structured output JSON.parse of content that is not JSON
BodyThrows(kind, body) ==
    \/ body = "no_choices"
    \/ kind = "askWithStructuredOutput" /\ body = "text_content"

\* the new chat list replaces the old one
AppendChatReplace(prev, chat) == <<chat>>

\* setConversation((prev) => ({...prev, chats: [...prev.chats, chat]}))
AppendChat(prev, chat) == Append(prev, chat)

RaycastUnchanged ==
    UNCHANGED <<program, apiKeySet, missingFiles, seqVars, concVars,
                runnerVars, probeVars, fnVars, callVars, pc, results,
                errorLog, inflight, netRequests, responded, summary,
                exitCode>>

\* the calls that have started and not settled
InFlight == {r \in DOMAIN calls : calls[r].stage \in {"fetching", "reading"}}

\* the call returns: finally sets isLoading to false and, in addChat, the
\* continuation appends the chat with a functional update
CallResolves(r) ==
    /\ isLoading' = FALSE
    /\ calls' = [calls EXCEPT ![r].stage = "resolved"]
    /\ conversation' =
          IF calls[r].kind = "addChat"
          THEN [conversation EXCEPT !.chats = AppendChat(@, Chat(r))]
          ELSE conversation

\* the call throws: catch logs and rethrows, finally sets isLoading to false
CallRejects(r) ==
    /\ isLoading' = FALSE
    /\ calls' = [calls EXCEPT ![r].stage = "rejected"]
    /\ UNCHANGED conversation

\* ask / askWithStructuredOutput / addChat is called: setIsLoading(true) and
\* the request is sent
AskStart(r) ==
    /\ program \in RaycastPrograms
    /\ calls[r].stage = "idle"
    /\ r > 1 => calls[r - 1].stage # "idle"
    /\ \E k \in CallKinds(program) :
         calls' = [calls EXCEPT ![r] = [stage |-> "fetching", kind |-> k,
                                        epoch |-> clears]]
    /\ isLoading' = TRUE
    /\ UNCHANGED <<conversation, clears>>
    /\ RaycastUnchanged

\* await fetch(...) settles: a 2xx response, another status, or a rejection
AskResponse(r) ==
    /\ program \in RaycastPrograms
    /\ calls[r].stage = "fetching"
    /\ \E ok \in BOOLEAN :
         IF ok
         THEN /\ calls' = [calls EXCEPT ![r].stage = "reading"]
              /\ UNCHANGED <<isLoading, conversation>>
         ELSE CallRejects(r)
    /\ UNCHANGED clears
    /\ RaycastUnchanged

\* await response.json() settles and the rest of the call runs
AskBodyRead(r) ==
    /\ program \in RaycastPrograms
    /\ calls[r].stage = "reading"
    /\ \E body \in Bodies :
         IF BodyThrows(calls[r].kind, body)
         THEN CallRejects(r)
         ELSE CallResolves(r)
    /\ UNCHANGED clears
    /\ RaycastUnchanged

\* the Clear Conversation action
ClearConversation ==
    /\ program = "use_conversation"
    /\ clears < MaxClears
    /\ conversation' = [conversation EXCEPT !.chats = <<>>]
    /\ clears' = clears + 1
    /\ UNCHANGED <<isLoading, calls>>
    /\ RaycastUnchanged

InitRaycast ==
    /\ program \in RaycastPrograms
    /\ apiKeySet \in BOOLEAN
    /\ missingFiles = {}
    /\ pc = "mounted"
    /\ idx = 0
    /\ expectedCode = Null
    /\ fiber = <<>>
    /\ fiberReturn = <<>>
    /\ slots = <<>>
    /\ completionOrder = <<>>
    /\ results = <<>>
    /\ errorLog = {}
    /\ inflight = {}
    /\ netRequests = 0
    /\ responded = {}
    /\ successfulResults = <<>>
    /\ failedResults = <<>>
    /\ failed = 0
    /\ lateEvents = {}
    /\ usage = <<>>
    /\ cached = <<>>
    /\ flags = {}
    /\ verdict = None
    /\ summary = NoSummary
    /\ exitCode = None
    /\ now = 0
    /\ testId = 0
    /\ sent = <<>>
    /\ report = <<>>
    /\ input = <<>>
    /\ output = <<>>
    /\ isLoading = FALSE
    /\ conversation = [chats |-> <<>>]
    /\ calls = [r \in 1..MaxCalls |-> NoCall]
    /\ clears = 0

NextRaycast ==
    \/ \E r \in 1..MaxCalls : AskStart(r)
    \/ \E r \in 1..MaxCalls : AskResponse(r)
    \/ \E r \in 1..MaxCalls : AskBodyRead(r)
    \/ ClearConversation

SpecRaycast == InitRaycast /\ [][NextRaycast]_vars

(***************************************************************************)
(* Every program of the repository that is modelled                        *)
(***************************************************************************)
Init == InitPdf \/ InitRunner \/ InitSeqRunner \/ InitProbe \/ InitRaycast

Next == NextPdf \/ NextRunner \/ NextSeqRunner \/ NextProbe \/ NextRaycast

Spec == Init /\ [][Next]_vars

(***************************************************************************)
(* Properties of the PDF batch runners                                     *)
(***************************************************************************)
\* number of entries of rs recorded as successful
PassedCount(rs) == Cardinality({i \in 1..Len(rs) : Success(rs[i])})

\* the run has ended with one recorded result per size class
AllProcessed == pc = "exited" /\ Len(results) = Len(PDF_SIZES)

\* size classes with a file absent from disk that the program reads
MissingSizes ==
    {f[1] : f \in {g \in missingFiles :
                      program \in HardCodedPrograms => g[2] = "pdf"}}

\* some fiber of the Effect runner died of a defect
DefectLogged == \E e \in errorLog : e.kind = "defect"

\* C1: once every size class has been processed, the exit status is 1 iff
\* passed < total and 0 iff passed = total.
C1_ExitStatusIffNotAllPassed ==
    AllProcessed =>
        /\ exitCode \in {0, 1}
        /\ (exitCode = 1 <=> PassedCount(results) < Len(results))
        /\ (exitCode = 0 <=> PassedCount(results) = Len(results))
        /\ summary = [printed |-> TRUE, passed |-> PassedCount(results),
                      total |-> Len(results)]

\* a run that ended with 3 of 4 cases passed and status 1
C1_Witness ==
    /\ AllProcessed
    /\ PassedCount(results) = 3
    /\ exitCode = 1

\* C2: a failed remote call (non-2xx response or transport error) is reported,
\* recorded as exactly one failed result without an extracted code, never as a
\* success, and does not abort the batch: the sequential runners go on to
\* record one result per size class, and the Effect runner is aborted by
\* nothing but a defect of another origin.
C2_RemoteFailureIsolated ==
    /\ \A r \in responded : r.status \in RemoteErrors =>
          /\ [case |-> r.case, kind |-> r.status] \in errorLog
          /\ IF program \in SeqPdfPrograms
             THEN Len(results) >= r.case /\ results[r.case] = FALSE
             ELSE /\ fiber[r.case] = "done"
                  /\ slots[r.case] = FailureRecord
                  /\ (pc \in {"summary", "exited"} /\ ~DefectLogged)
                        => results[r.case] = FailureRecord
    /\ program \in SeqPdfPrograms =>
          /\ Len(results) = IF pc \in {"summary", "exited"}
                            THEN Len(PDF_SIZES) ELSE idx - 1
          /\ pc = "exited" => summary.printed
    /\ program \in EffectPdfPrograms =>
          /\ (pc = "died" \/ (pc = "exited" /\ ~summary.printed)) => DefectLogged
          /\ (pc \in {"summary", "exited"} /\ ~DefectLogged)
                => Len(results) = Len(PDF_SIZES)

\* the remote call of the first size class failed and the other three
\* cases were still evaluated and passed
C2_Witness ==
    /\ AllProcessed
    /\ \E r \in responded : r.case = 1 /\ r.status \in RemoteErrors
    /\ ~Success(results[1])
    /\ PassedCount(results) = 3

\* C3: with the PDF or metadata file of exactly one size class missing, the
\* run over all four size classes ends with the summary printed, the missing
\* case recorded as failed, the other three evaluated, and a non-zero status.
C3_MissingFixtureIsolated ==
    (Cardinality(MissingSizes) = 1 /\ pc = "exited") =>
        /\ summary.printed
        /\ summary.total = Len(PDF_SIZES)
        /\ Len(results) = Len(PDF_SIZES)
        /\ \A i \in SizeIndex :
              PDF_SIZES[i] \in MissingSizes => ~Success(results[i])
        /\ apiKeySet =>
              \A i \in SizeIndex :
                 PDF_SIZES[i] \notin MissingSizes => \E r \in responded : r.case = i
        /\ exitCode = 1

\* C10: without the API key the fetch PDF runner reports the configuration
\* error once, before any network request, and exits non-zero at once; the
\* error is not handled as the failure of one case.
C10_MissingApiKeyIsFatal ==
    (program = "fetch_pdf" /\ \E e \in errorLog : e.kind = "apikey") =>
        /\ pc = "exited"
        /\ exitCode = 1
        /\ netRequests = 0
        /\ results = <<>>
        /\ Cardinality({e \in errorLog : e.kind = "apikey"}) = 1

(***************************************************************************)
(* Properties of the concurrent runners                                    *)
(***************************************************************************)
\* C4: whatever the completion order, a fiber writes only its own slot, and
\* the final results follow the input order: the entry at position i is the
\* value of case i (size class PDF_SIZES[i] / example examples[i]), and the
\* example runner names a failure after the example that failed.
C4_ResultsFollowInputOrder ==
    /\ program \in EffectPdfPrograms =>
          /\ \A i \in DOMAIN fiber :
                slots[i] = IF fiber[i] = "done" THEN fiberReturn[i] ELSE EmptySlot
          /\ (pc \in {"summary", "exited"} /\ summary.printed) =>
                \A i \in SizeIndex :
                   /\ results[i] = fiberReturn[i]
                   /\ results[i].success =>
                         results[i].expected = VerificationCode(PDF_SIZES[i])
    /\ program \in RunnerPrograms =>
          /\ \A i \in DOMAIN fiber :
                slots[i] = IF fiber[i] = "done" THEN fiberReturn[i]
                           ELSE RunnerEmptySlot
          /\ (pc = "exited" /\ summary.printed) =>
                /\ \A i \in 1..NumExamples :
                      /\ results[i] = fiberReturn[i]
                      /\ results[i].example = Examples[i]
                /\ {failedResults[k].example : k \in 1..Len(failedResults)}
                      = {Examples[r.case] :
                            r \in {x \in responded : x.status = "spawn_error"}}
                /\ \A k \in 1..Len(failedResults) :
                      failedResults[k].error.example = failedResults[k].example

\* all four PDF cases passed although they finished in reverse order
C4_Witness ==
    /\ program \in EffectPdfPrograms
    /\ pc = "exited"
    /\ summary.printed
    /\ completionOrder = <<4, 3, 2, 1>>
    /\ PassedCount(results) = 4

\* C5: the example runner exits 0 only if every example process exited with
\* code 0; an example whose process exits with a non-zero code is counted as
\* failed and makes the runner exit 1.
C5_RunnerExitContract ==
    (program \in RunnerPrograms /\ pc = "exited" /\ summary.printed) =>
        /\ \A r \in responded : r.status = "exit1" =>
              /\ exitCode = 1
              /\ \E k \in 1..Len(failedResults) :
                    failedResults[k].example = Examples[r.case]
        /\ exitCode = 0 => \A r \in responded : r.status = "exit0"

(***************************************************************************)
(* Properties of the cache-probe, control and reasoning examples           *)
(***************************************************************************)
\* the analysis of a two-call example has run
Analysed == program \in PairPrograms /\ verdict # None

\* the response's cached-token count is zero (an absent field counts as zero)
ReportsZero(u) == ~u.present \/ u.value = 0

\* C6: with a cache directive, the pair is classified as success iff the
\* first call reports 0 cached tokens and the second more than 0; every
\* other pair is classified as cache not working.
C6_CacheWorkingIff ==
    (Analysed /\ program \in CacheProbePrograms) =>
        /\ verdict \in {"success", "failure"}
        /\ verdict = "success" <=>
              (ReportsZero(usage[1]) /\ ~ReportsZero(usage[2]))

\* a probe whose first call reported 0 and second call 2 cached tokens
C6_Witness ==
    /\ Analysed
    /\ program \in CacheProbePrograms
    /\ usage[1] = [present |-> TRUE, value |-> 0, reasoning |-> FALSE]
    /\ usage[2] = [present |-> TRUE, value |-> 2, reasoning |-> FALSE]
    /\ verdict = "success"

\* C7: without a cache directive, the pair is classified as valid iff both
\* calls report 0 cached tokens; any non-zero count makes the control
\* invalid.
C7_ControlValidIff ==
    (Analysed /\ program \in ControlPrograms) =>
        /\ verdict \in {"success", "failure"}
        /\ verdict = "success" <=>
              (ReportsZero(usage[1]) /\ ReportsZero(usage[2]))
        /\ ("no_cache_metrics" \in flags) <=> (verdict = "success")
        /\ ("unexpected_cache_metrics" \in flags) <=> (verdict = "failure")

\* a control run whose second call alone reported cached tokens
C7_Witness ==
    /\ Analysed
    /\ program \in ControlPrograms
    /\ ReportsZero(usage[1])
    /\ usage[2].present /\ usage[2].value = 1
    /\ verdict = "failure"

\* C8: a cache probe whose first call already reports cached tokens flags the
\* unexpected hit on the first call and does not report success.
C8_FirstCallHitFlagged ==
    (Analysed /\ program \in CacheProbePrograms /\ ~ReportsZero(usage[1])) =>
        /\ "first_call_unexpected_hit" \in flags
        /\ verdict # "success"

\* C9: a cache-probe, control or reasoning example exits 0 only when its
\* check passed, and exits 1 when the check failed or an error occurred.
C9_ExitCodeReflectsCheck ==
    (program \in ProbePrograms /\ pc = "exited") =>
        /\ exitCode = 0 <=> verdict = "success"
        /\ exitCode = 1 <=> verdict # "success"


(***************************************************************************)
(* Properties of the helper functions                                      *)
(***************************************************************************)
\* the response handling has returned
Returned == program = "check_response" /\ pc = "returned"

Lower == {"a","b","c","d","e","f","g","h","i","j","k","l","m",
          "n","o","p","q","r","s","t","u","v","w","x","y","z"}

\* s is one or more uppercase letters, a hyphen and five uppercase letters
\* or digits
IsCodeShaped(s) ==
    /\ Len(s) >= 7
    /\ s[Len(s) - 5] = "-"
    /\ \A k \in 1..(Len(s) - 6) : s[k] \in Upper
    /\ \A k \in (Len(s) - 4)..Len(s) : s[k] \in Upper \cup Digit

\* s is the substring of text that starts at position p
OccursAt(s, text, p) ==
    /\ p + Len(s) - 1 <= Len(text)
    /\ SubSeq(text, p, p + Len(s) - 1) = s

\* some code-shaped substring of text starts at position a
CodeStartsAt(text, a) ==
    \E b \in a..Len(text) : IsCodeShaped(SubSeq(text, a, b))

\* positions of text where a code-shaped substring starts
CodeStarts(text) == {a \in 1..Len(text) : CodeStartsAt(text, a)}

\* the least element of a non-empty set of numbers
Least(S) == CHOOSE a \in S : \A b \in S : a <= b

\* C11 (as stated): whenever the response text contains the expected code
\* verbatim, whatever surrounds it, the extraction returns exactly that code.
C11_RoundTripAnySurrounding ==
    (Returned /\ \E p \in 1..Len(input.text) :
                    OccursAt(input.expected, input.text, p)) =>
        output.extracted = input.expected

\* C11 (amended): whenever the response text contains the expected code
\* verbatim and no code-shaped substring starts before that occurrence, the
\* extraction returns exactly the expected code and the case passes.
C11_RoundTripFirstCode ==
    Returned =>
        \A p \in 1..Len(input.text) :
            ( /\ OccursAt(input.expected, input.text, p)
              /\ \A q \in 1..(p - 1) : ~CodeStartsAt(input.text, q) ) =>
                /\ output.extracted = input.expected
                /\ output.success

\* "The code is MEDIUM-K4P8R," yields MEDIUM-K4P8R
C11_Witness ==
    /\ Returned
    /\ input.expected = VerificationCode("medium")
    /\ input.text = <<"T","h","e"," ","c","o","d","e"," ","i","s"," ">>
                       \o VerificationCode("medium") \o <<",">>
    /\ output.extracted = VerificationCode("medium")
    /\ output.success

\* C12: the extraction returns the leftmost code-shaped substring of the
\* text, and none when the text has no such substring; the case passes iff
\* that substring equals the expected code, so a text whose first code
\* differs from the expected one fails even if the expected code follows.
C12_LeftmostMatch ==
    Returned =>
        /\ output.success <=> (output.extracted = input.expected)
        /\ IF CodeStarts(input.text) = {}
           THEN output.extracted = Null /\ ~output.success
           ELSE /\ IsCodeShaped(output.extracted)
                /\ OccursAt(output.extracted, input.text,
                            Least(CodeStarts(input.text)))
                /\ output.extracted # input.expected => ~output.success

\* "MEDIUM-K4P8R SMALL-7X9Q2" checked against SMALL-7X9Q2 fails
C12_Witness ==
    /\ Returned
    /\ input.expected = VerificationCode("small")
    /\ input.text = VerificationCode("medium") \o <<" ">>
                       \o VerificationCode("small")
    /\ output.extracted = VerificationCode("medium")
    /\ ~output.success

\* C13: a returned code holds no lowercase letter, is a whole token of the
\* text (no letter or digit stands right before or right after it), and the
\* case passes iff it equals the expected code exactly.
C13_NoLowercaseNoPartialToken ==
    (Returned /\ output.extracted # Null) =>
        LET r == output.extracted
            a == Least(CodeStarts(input.text))
            b == a + Len(r) - 1
        IN  /\ \A k \in 1..Len(r) : r[k] \notin Lower
            /\ a > 1 => input.text[a - 1] \notin Upper \cup Lower \cup Digit
            /\ b < Len(input.text) =>
                  input.text[b + 1] \notin Upper \cup Lower \cup Digit
            /\ output.success <=> (r = input.expected)

\* the text holds a hyphen with an uppercase letter before it and five
\* uppercase letters or digits after it
HoldsCode(text) ==
    \E j \in 2..(Len(text) - 5) :
        /\ text[j] = "-"
        /\ text[j - 1] \in Upper
        /\ \A k \in 1..5 : text[j + k] \in Upper \cup Digit

\* C14: a 2xx response whose text holds no code raises no error; its case
\* is recorded as failed, with no extracted code, against the expected code
\* of every size class, and the batch goes on: the sequential runners record
\* one result per size class, and the Effect runner is aborted by nothing
\* but a defect of another origin.
C14_NoCodeIsFailureNotError ==
    program \in PdfPrograms =>
          \A r \in responded :
             (r.status = "ok" /\ ~HoldsCode(r.text)) =>
                /\ ~\E e \in errorLog : e.case = r.case
                /\ IF program \in SeqPdfPrograms
                   THEN /\ Len(results) >= r.case /\ results[r.case] = FALSE
                        /\ Len(results) = IF pc \in {"summary", "exited"}
                                          THEN Len(PDF_SIZES) ELSE idx - 1
                        /\ pc = "exited" => summary.total = Len(PDF_SIZES)
                   ELSE /\ fiber[r.case] = "done"
                        /\ slots[r.case] =
                              [success |-> FALSE, extracted |-> Null,
                               expected |-> VerificationCode(PDF_SIZES[r.case])]
                        /\ (pc = "died" \/ (pc = "exited" /\ ~summary.printed))
                              => DefectLogged
                        /\ (pc \in {"summary", "exited"} /\ ~DefectLogged) =>
                              /\ Len(results) = Len(PDF_SIZES)
                              /\ ~results[r.case].success

\* the first response held no code and the other three cases passed
C14_Witness ==
    /\ AllProcessed
    /\ \E r \in responded :
          r.case = 1 /\ r.status = "ok" /\ ~HoldsCode(r.text)
    /\ ~Success(results[1])
    /\ PassedCount(results) = 3

\* the file holds a JSON object with a string member verificationCode
HasCodeMember(file) ==
    /\ file.exists
    /\ file.json = "object"
    /\ \E m \in file.fields : m[1] = "verificationCode" /\ m[2].type = "string"

\* C15: readExpectedCode fails when the metadata file is absent and when its
\* content is not a JSON object with a string member verificationCode; when
\* it returns, it returns the stored verification code, a string.
C15_ReadExpectedCodeValidates ==
    (program = "read_expected_code" /\ pc = "returned") =>
        /\ ~input.exists => output.threw
        /\ ~HasCodeMember(input) => output.threw
        /\ ~output.threw =>
              /\ output.value.type = "string"
              /\ <<"verificationCode", output.value>> \in input.fields

\* the last n characters of a text
Last(text, n) == SubSeq(text, Len(text) - n + 1, Len(text))

\* C16: formatSize writes every byte count below 1048576 in KB (1023*1024 as
\* "1023 KB") and every byte count from 1048576 on in MB with one decimal
\* (1048576 as "1.0 MB").
C16_FormatSizeUnitSwitch ==
    (program = "format_size" /\ pc = "returned") =>
        /\ input < 1048576 =>
              /\ Last(output, 3) = <<" ","K","B">>
              /\ \A k \in 1..(Len(output) - 3) : output[k] \in Digit
        /\ input >= 1048576 =>
              /\ Last(output, 3) = <<" ","M","B">>
              /\ output[Len(output) - 4] = "."
              /\ output[Len(output) - 3] \in Digit
              /\ \A k \in 1..(Len(output) - 5) : output[k] \in Digit
        /\ input = 1023 * 1024 => output = <<"1","0","2","3"," ","K","B">>
        /\ input = 1024 * 1024 => output = <<"1",".","0"," ","M","B">>

\* formatSize(1048576) = "1.0 MB"
C16_Witness ==
    /\ program = "format_size"
    /\ pc = "returned"
    /\ input = 1048576
    /\ output = <<"1",".","0"," ","M","B">>

\* the content blocks of a request
Blocks(req) ==
    UNION {{req.messages[i].content[k] : k \in 1..Len(req.messages[i].content)} :
              i \in 1..Len(req.messages)}

\* the content blocks of a request that carry the cache directive
CachedBlocks(req) == {b \in Blocks(req) : b.cache}

\* the text holds a number
HoldsNumber(text) == \E k \in 1..Len(text) : text[k] \in Digit

\* C17: in a cache-probe example at most one request is in flight; the second
\* request is sent only after the first call's response has arrived and at
\* least one second has passed since then.
C17_CallsStrictlyOrdered ==
    program \in CacheProbePrograms =>
        /\ Cardinality(inflight) <= 1
        /\ inflight \subseteq 1..Len(sent)
        /\ Len(sent) <= 2
        /\ netRequests = Len(sent)
        /\ 2 \in inflight => Len(sent) = 2
        /\ Len(sent) = 2 =>
              \E r \in responded :
                 /\ r.case = 1
                 /\ r.status = "ok"
                 /\ sent[1].at <= r.at
                 /\ sent[2].at >= r.at + 1

\* the second request of a cache probe is in flight
C17_Witness ==
    /\ program \in CacheProbePrograms
    /\ inflight = {2}
    /\ \E r \in responded : r.case = 1 /\ sent[2].at = r.at + 1

\* C18: in a cache-probe example the second request equals the first one of
\* the same run, although the clock has moved on between the two calls.
C18_SecondRequestIdentical ==
    (program \in CacheProbePrograms /\ Len(sent) = 2) =>
        /\ sent[2].at > sent[1].at
        /\ sent[2].request = sent[1].request
        /\ sent[2].request.model = sent[1].request.model
        /\ CachedBlocks(sent[2].request) = CachedBlocks(sent[1].request)
        /\ CachedBlocks(sent[1].request) # {}

\* the AI SDK multi-message probe has sent both requests, the second one
\* two seconds after it took its test id
C18_Witness ==
    /\ program = "aisdk_cache_multi"
    /\ Len(sent) = 2
    /\ sent[2].at = testId + 2
    /\ sent[2].request = sent[1].request

\* C19 (as stated): in a cache-probe example that takes a test id, no block
\* carrying the cache directive holds the timestamp.
C19_TestIdOutsideCachedBlock ==
    (program \in CacheProbePrograms \cap TestIdPrograms) =>
        \A k \in 1..Len(sent) :
            \A b \in CachedBlocks(sent[k].request) : ~HoldsNumber(b.text)

\* C19 (amended): in a cache-probe example that takes a test id, the id is
\* the clock reading at the start of the run and stands only at the head of
\* the one block that carries the cache directive; that block is the same in
\* both requests of the run.
C19_TestIdLeadsCachedBlock ==
    (program \in CacheProbePrograms \cap TestIdPrograms /\ sent # <<>>) =>
        /\ testId = sent[1].at
        /\ \A k \in 1..Len(sent) :
              /\ Cardinality(CachedBlocks(sent[k].request)) = 1
              /\ \A b \in CachedBlocks(sent[k].request) :
                    /\ b.text[1] = "Test "
                    /\ SubSeq(b.text, 2, 1 + Len(Decimal(testId))) = Decimal(testId)
                    /\ \A j \in (2 + Len(Decimal(testId)))..Len(b.text) :
                          b.text[j] \notin Digit
              /\ \A b \in Blocks(sent[k].request) \ CachedBlocks(sent[k].request) :
                    ~HoldsNumber(b.text)
              /\ CachedBlocks(sent[k].request) = CachedBlocks(sent[1].request)

\* the Effect AI user-message probe, started at time 2, has sent both requests
C19_Witness ==
    /\ program = "effect_cache_user"
    /\ Len(sent) = 2
    /\ testId = 2
    /\ \E b \in CachedBlocks(sent[2].request) : HoldsNumber(b.text)

\* C20: in a cache-probe or control example a response without the
\* cached-token field counts as 0 cached tokens in the per-call line and in
\* the analysis, and a pair with the field absent twice is classified as the
\* pair (0, 0): cache not working, control valid.
C20_AbsentFieldCountsAsZero ==
    program \in PairPrograms =>
        /\ Len(report) = Len(usage) /\ Len(cached) = Len(usage)
        /\ \A n \in 1..Len(usage) :
              ~usage[n].present => report[n] = 0 /\ cached[n] = 0
        /\ (Analysed /\ ~usage[1].present /\ ~usage[2].present) =>
              /\ verdict = IF program \in ControlPrograms THEN "success"
                           ELSE "failure"
              /\ program \in FirstCallLinePrograms =>
                    flags = {"first_call_miss", "second_call_miss"}
              /\ program \in ControlPrograms => flags = {"no_cache_metrics"}

\* a control run in which neither response carried the field
C20_Witness ==
    /\ Analysed
    /\ program \in ControlPrograms
    /\ ~usage[1].present /\ ~usage[2].present
    /\ verdict = "success"

(***************************************************************************)
(* Further properties of the batch runners                                 *)
(***************************************************************************)
\* the results recorded so far are kept as they are by the step
ResultsKept ==
    program \in PdfPrograms =>
    /\ Len(results') >= Len(results)
    /\ \A i \in 1..Len(results) : results'[i] = results[i]
    /\ \A i \in DOMAIN slots :
          (program \in EffectPdfPrograms /\ fiber[i] = "done") =>
              slots'[i] = slots[i]

\* C21: a batch run records one result per size class: when the summary is
\* printed, total is 4 and passed <= total, and a sequential run always gets
\* there with four results; no step changes or removes a recorded result.
C21_OneResultPerSizeClass ==
    /\ [](program \in PdfPrograms =>
            /\ Len(results) <= Len(PDF_SIZES)
            /\ summary.printed =>
                  /\ summary.total = Len(PDF_SIZES)
                  /\ Len(results) = Len(PDF_SIZES)
                  /\ summary.passed <= summary.total
                  /\ summary.passed = PassedCount(results)
            /\ (program \in SeqPdfPrograms /\ pc \in {"summary", "exited"}) =>
                  Len(results) = Len(PDF_SIZES))
    /\ [][ResultsKept]_vars

\* a sequential run with one pass, one extraction miss, one fixture error
\* and one remote-call error
C21_Witness ==
    /\ program \in SeqPdfPrograms
    /\ AllProcessed
    /\ summary.total = 4
    /\ PassedCount(results) = 1
    /\ \E e \in errorLog : e.kind \in {"metadata", "pdf"}
    /\ \E e \in errorLog : e.kind \in RemoteErrors
    /\ \E r \in responded : r.status = "ok" /\ ~HoldsCode(r.text)

\* C22: in the sequential batch runners at most one remote call is in
\* flight, it is the call of the size class being processed, and a size
\* class is processed only once every earlier one has its result recorded.
C22_OneCallAtATime ==
    program \in SeqPdfPrograms =>
        /\ Cardinality(inflight) <= 1
        /\ inflight \subseteq {idx}
        /\ (pc = "call") = (inflight # {})
        /\ pc \in {"meta", "pdf", "call"} => Len(results) = idx - 1
        /\ netRequests <= Len(results) + Cardinality(inflight)

\* the second call is in flight after the first response was recorded
C22_Witness ==
    /\ program \in SeqPdfPrograms
    /\ pc = "call"
    /\ idx = 2
    /\ inflight = {2}
    /\ Len(results) = 1
    /\ \E r \in responded : r.case = 1

\* the upper-cased name of a size class
UpperCased(size) ==
    CASE size = "small"  -> <<"S","M","A","L","L">>
      [] size = "medium" -> <<"M","E","D","I","U","M">>
      [] size = "large"  -> <<"L","A","R","G","E">>
      [] size = "xlarge" -> <<"X","L","A","R","G","E">>

\* CLASS-XXXXX: the upper-cased size class, a hyphen, five of A-Z and 0-9
HasCodeForm(code, size) ==
    /\ Len(code) = Len(UpperCased(size)) + 6
    /\ SubSeq(code, 1, Len(UpperCased(size))) = UpperCased(size)
    /\ code[Len(UpperCased(size)) + 1] = "-"
    /\ \A k \in (Len(UpperCased(size)) + 2)..Len(code) :
          code[k] \in Upper \cup Digit

\* C23: the expected code a batch runner compares a response against is the
\* code the generator embeds in the PDF of that size class, and it has the
\* form CLASS-XXXXX with CLASS the upper-cased size class.
C23_OneCodePerSizeClass ==
    (program \in SeqPdfPrograms /\ pc \in {"pdf", "call"}) =>
        /\ expectedCode = VerificationCode(PDF_SIZES[idx])
        /\ HasCodeForm(expectedCode, PDF_SIZES[idx])

\* C24: when every pending file read and remote call eventually settles,
\* every batch run ends, with exit status 0 or 1, whatever errors its cases
\* meet.
C24_RunTerminates ==
    (program \in PdfPrograms) ~> (pc = "exited" /\ exitCode \in {0, 1})

\* a run of the Effect runner that met a fixture error and still ended
C24_Witness ==
    /\ program \in EffectPdfPrograms
    /\ pc = "exited"
    /\ exitCode = 1
    /\ ~summary.printed

(***************************************************************************)
(* Properties of the example runners                                       *)
(***************************************************************************)
\* how the child process of each example ended, once all have ended
OutcomesSeen ==
    [i \in 1..NumExamples |-> (CHOOSE r \in responded : r.case = i).status]

\* what a runner reports: passed/total of the summary and the exit status
Reported == [passed |-> summary.passed, total |-> summary.total,
             exit |-> exitCode]

\* the report of the sequential runner for the child outcomes os
SequentialReport(os) ==
    LET bad == Cardinality({i \in 1..Len(os) : ShellThrows(os[i])})
    IN  [passed |-> Len(os) - bad, total |-> Len(os),
         exit |-> IF bad > 0 THEN 1 ELSE 0]

\* the report of the parallel runner for the child outcomes os
ParallelReport(os) ==
    LET exits == [i \in 1..Len(os) |-> TaskExit(i, os[i])]
    IN  [passed |-> Len(SuccessfulOf(exits, 1)), total |-> Len(os),
         exit |-> IF Len(FailedOf(exits, 1)) > 0 THEN 1 ELSE 0]

\* C25: the sequential and the parallel example runner report the same
\* passed/total counts and exit status for the same child outcomes: what one
\* runner reports is what the other reports for these outcomes.
C25_RunnersEquivalent ==
    (program \in ExampleRunners /\ pc = "exited" /\ summary.printed) =>
        Reported = IF program \in RunnerPrograms
                   THEN SequentialReport(OutcomesSeen)
                   ELSE ParallelReport(OutcomesSeen)

\* the first event of the child of example i
FirstEvent(i) == (CHOOSE r \in responded : r.case = i).status

\* how often example i is listed in successfulResults and failedResults
Listed(i) ==
    Cardinality({k \in 1..Len(successfulResults) :
                    successfulResults[k].example = Examples[i]})
    + Cardinality({k \in 1..Len(failedResults) :
                    failedResults[k].example = Examples[i]})

\* C26: in the parallel runner every example has exactly one outcome, that
\* of the first event of its child, even when 'error' and 'close' both
\* fire; a spawn failure interrupts no other example; at the end every
\* example is listed exactly once in successfulResults and failedResults,
\* whose lengths add up to the number of examples.
C26_OneOutcomePerExample ==
    program \in RunnerPrograms =>
        /\ \A i \in DOMAIN fiber :
              fiber[i] = "done" => slots[i] = TaskExit(i, FirstEvent(i))
        /\ pc = "all" => \A i \in DOMAIN fiber : fiber[i] \in {"running", "done"}
        /\ (pc = "exited" /\ responded # {}) => summary.printed
        /\ (pc = "exited" /\ summary.printed) =>
              /\ Len(successfulResults) + Len(failedResults) = Len(Examples)
              /\ \A i \in 1..NumExamples : Listed(i) = 1

\* the first example failed to spawn and its 'close' event fired as well;
\* the others ran, one of them to exit code 0
C26_Witness ==
    /\ program \in RunnerPrograms
    /\ pc = "exited"
    /\ summary.printed
    /\ [case |-> 1, status |-> "spawn_error"] \in responded
    /\ [case |-> 1, event |-> "close"] \in lateEvents
    /\ [case |-> 2, status |-> "exit0"] \in responded
    /\ Len(failedResults) = 1
    /\ Len(successfulResults) = NumExamples - 1

\* an example file was found missing by its existence check
NotFound == \E e \in errorLog : e.kind = "not_found"

\* the child process of example i has been spawned
Spawned(i) == fiber[i] \in {"running", "done"}

\* C27: the parallel runner spawns no example before the existence check of
\* every example has succeeded; when a check fails, no example is spawned
\* and the runner exits with status 1.
C27_ChecksBeforeSpawn ==
    program \in RunnerPrograms =>
        /\ (\E i \in DOMAIN fiber : Spawned(i)) =>
              /\ ~NotFound
              /\ \A i \in DOMAIN fiber : Spawned(i)
        /\ pc = "check" => \A i \in DOMAIN fiber : fiber[i] \in {"check", "checked"}
        /\ NotFound =>
              /\ pc = "exited"
              /\ exitCode = 1
              /\ responded = {}
              /\ ~summary.printed
              /\ \A i \in DOMAIN fiber : ~Spawned(i)

\* the check of the last example failed after the first one had succeeded
C27_Witness ==
    /\ program \in RunnerPrograms
    /\ pc = "exited"
    /\ exitCode = 1
    /\ fiber[1] = "checked"
    /\ [case |-> NumExamples, kind |-> "not_found"] \in errorLog

(***************************************************************************)
(* Properties of the Raycast hooks                                         *)
(***************************************************************************)
\* the ids of the chats in the conversation
ChatIds == {conversation.chats[k].id : k \in 1..Len(conversation.chats)}

\* the step settles call r
Settles(r, stage) ==
    /\ calls[r].stage \in {"fetching", "reading"}
    /\ calls'[r].stage = stage

\* C28: isLoading of useOpenRouter is true exactly while at least one ask or
\* askWithStructuredOutput request is in flight, whatever the interleaving.
C28_LoadingIffInFlight ==
    program \in RaycastPrograms => (isLoading <=> InFlight # {})

\* C29: of concurrent addChat calls, each one that succeeds appends exactly
\* its own chat and changes nothing else of the list, and each one that
\* fails leaves the conversation as it is; without a clear, the list holds
\* the chats of the calls that succeeded, each once.
C29_AddChatAppendsOnce ==
    /\ [](program = "use_conversation" =>
            /\ \A j, k \in 1..Len(conversation.chats) :
                  conversation.chats[j].id = conversation.chats[k].id => j = k
            /\ clears = 0 =>
                  ChatIds = {r \in DOMAIN calls : calls[r].stage = "resolved"})
    /\ [][program = "use_conversation" =>
            \A r \in DOMAIN calls :
               /\ Settles(r, "resolved") =>
                     conversation'.chats = Append(conversation.chats, Chat(r))
               /\ Settles(r, "rejected") => conversation' = conversation]_vars

\* three overlapping addChat calls: the second succeeded first, then the
\* first, and the third failed
C29_Witness ==
    /\ program = "use_conversation"
    /\ clears = 0
    /\ conversation.chats = <<Chat(2), Chat(1)>>
    /\ calls[3].stage = "rejected"

\* C30: after clearConversation the chat list holds only chats of addChat
\* calls that started after the clear.
C30_ClearDropsEarlierCalls ==
    program = "use_conversation" =>
        \A k \in 1..Len(conversation.chats) :
           calls[conversation.chats[k].id].epoch = clears

=============================================================================
